---- MODULE Spec2Model ----
(***************************************************************************)
(* The SQL validation and risk-analysis engine of Prism AI                 *)
(* (supabase/functions/validate-query/index.ts, the sql-validator part).   *)
(*                                                                         *)
(* A JavaScript string is a sequence of one-character strings, so that the *)
(* regular expressions of the source are modelled by what they match,      *)
(* character by character.  A ValidationResult is a record that has        *)
(* exactly the keys the returned object literal has.                       *)
(***************************************************************************)
EXTENDS Integers, Sequences, FiniteSets, TLC

\* sql, schema, role, allowedTables: the arguments of the caller
\* result: what validateSQL returned last; previous: what it returned before that
\* report: what analyzeOperation returned
\* given: the schema and the allowlist as the caller built them
\* calls: the calls of validateSQL made so far
\* lastIndex: the lastIndex of the three COMMENT_PATTERNS
\* request: the POST request an edge function serves, with its JSON body
\* response: what the function answered
\* issued: the database operations the function has issued
VARIABLES sql, schema, role, allowedTables, result, report, previous, given, calls, lastIndex,
          request, response, issued, ai, task, created

vars == <<sql, schema, role, allowedTables, result, report, previous, given, calls, lastIndex,
          request, response, issued, ai, task, created>>

\* the state of the edge functions
served == <<request, response, issued>>

\* the state of the AI command console
console == <<ai, task, created>>

(***************************************************************************)
(* Characters and the character classes of the regular expressions.        *)
(***************************************************************************)
LowerLetters ==
  <<"a","b","c","d","e","f","g","h","i","j","k","l","m",
    "n","o","p","q","r","s","t","u","v","w","x","y","z">>

UpperLetters ==
  <<"A","B","C","D","E","F","G","H","I","J","K","L","M",
    "N","O","P","Q","R","S","T","U","V","W","X","Y","Z">>

Range(f) == {f[i] : i \in DOMAIN f}

LowerSet == Range(LowerLetters)

UpperSet == Range(UpperLetters)

Digits == {"0","1","2","3","4","5","6","7","8","9"}

\* \s of a JavaScript regular expression, and what String.prototype.trim removes
WhiteSpace == {" ", "\t", "\n", "\r"}

\* the characters "." does not match and "$" (flag m) stops before
LineTerminators == {"\n", "\r"}

\* [a-zA-Z_]
IdentStart == LowerSet \cup UpperSet \cup {"_"}

\* [a-zA-Z0-9_], which is also \w
WordChars == IdentStart \cup Digits

UpperOf == [c \in LowerSet |-> UpperLetters[CHOOSE i \in 1..26 : LowerLetters[i] = c]]

LowerOf == [c \in UpperSet |-> LowerLetters[CHOOSE i \in 1..26 : UpperLetters[i] = c]]

\* String.prototype.toUpperCase and toLowerCase over the letters a-z, as tuples
toUpperCase(s) == SubSeq([i \in 1..Len(s) |-> IF s[i] \in LowerSet THEN UpperOf[s[i]] ELSE s[i]], 1, Len(s))

toLowerCase(s) == SubSeq([i \in 1..Len(s) |-> IF s[i] \in UpperSet THEN LowerOf[s[i]] ELSE s[i]], 1, Len(s))

(***************************************************************************)
(* String primitives.                                                      *)
(***************************************************************************)
\* the word w occurs in s at position i
MatchAt(s, i, w) ==
  /\ i >= 1
  /\ i + Len(w) - 1 <= Len(s)
  /\ \A k \in 1..Len(w) : s[i + k - 1] = w[k]

\* s[i..j-1], the JavaScript s.slice(i, j) with 1-based i (empty when j <= i)
Slice(s, i, j) == SubSeq(s, i, j - 1)

\* String.prototype.includes
includes(s, w) == \E i \in 1..(Len(s) - Len(w) + 1) : MatchAt(s, i, w)

\* String.prototype.startsWith
startsWith(s, w) == MatchAt(s, 1, w)

\* the least element of a set of positions, or 0 when there is none
Least(S) == IF S = {} THEN 0 ELSE CHOOSE j \in S : \A k \in S : j <= k

\* the greatest element of a set of positions, or 0 when there is none
Greatest(S) == IF S = {} THEN 0 ELSE CHOOSE j \in S : \A k \in S : j >= k

\* the least position j >= i where w occurs in s, or 0
IndexFrom(s, w, i) == Least({j \in i..(Len(s) - Len(w) + 1) : MatchAt(s, j, w)})

\* the position j a scan from i found in s, or the position past the end when j = 0
OrEnd(j, s, i) == IF j > 0 THEN j ELSE IF i > Len(s) THEN i ELSE Len(s) + 1

\* the least position j >= i of s that holds no character of class C (Len(s)+1 at the end)
SkipClass(s, C, i) == OrEnd(Least({k \in i..Len(s) : s[k] \notin C}), s, i)

\* the least position j >= i of s that holds a character of class C (Len(s)+1 at the end)
FindClass(s, C, i) == OrEnd(Least({k \in i..Len(s) : s[k] \in C}), s, i)

\* the greatest position j <= i of s that holds no white space (0 when there is none)
LastNonSpace(s, i) == Greatest({k \in 1..i : s[k] \notin WhiteSpace})

\* String.prototype.trim (Slice is empty when nothing but white space is left)
trim(s) == Slice(s, SkipClass(s, WhiteSpace, 1), LastNonSpace(s, Len(s)) + 1)

\* String.prototype.split on a one-character separator
RECURSIVE split(_, _)
split(s, sep) ==
  LET j == FindClass(s, {sep}, 1)
  IN IF j > Len(s) THEN <<s>>
     ELSE <<Slice(s, 1, j)>> \o split(Slice(s, j + 1, Len(s) + 1), sep)

\* Array.prototype.includes
arrIncludes(a, x) == \E i \in 1..Len(a) : a[i] = x

\* the order-keeping deduplication a Set insertion gives: Array.from(new Set(a))
RECURSIVE dedup(_)
dedup(a) ==
  IF a = <<>> THEN <<>>
  ELSE LET front == dedup(Slice(a, 1, Len(a)))
           x == a[Len(a)]
       IN IF arrIncludes(front, x) THEN front ELSE Append(front, x)

\* a word boundary \b lies before position i of s
WordBoundary(s, i) ==
  LET before == i > 1 /\ i - 1 <= Len(s) /\ s[i - 1] \in WordChars
      after == i >= 1 /\ i <= Len(s) /\ s[i] \in WordChars
  IN before # after

(***************************************************************************)
(* removeComments                                                          *)
(***************************************************************************)
\* s.replace(/<marker>.*$/gm, ' ') from position i on
RECURSIVE replaceLineComments(_, _, _)
replaceLineComments(s, marker, i) ==
  LET m == IndexFrom(s, marker, i)
  IN IF m = 0 THEN Slice(s, i, Len(s) + 1)
     ELSE Slice(s, i, m) \o <<" ">>
          \o replaceLineComments(s, marker, FindClass(s, LineTerminators, m))

\* a block comment /\*[\s\S]*?\*\/ starts at position j of s
blockCommentAt(s, j) ==
  MatchAt(s, j, <<"/", "*">>) /\ IndexFrom(s, <<"*", "/">>, j + 2) > 0

\* s.replace(/\/\*[\s\S]*?\*\//g, ' ') from position i on
RECURSIVE replaceBlockComments(_, _)
replaceBlockComments(s, i) ==
  LET m == Least({j \in i..Len(s) : blockCommentAt(s, j)})
  IN IF m = 0 THEN Slice(s, i, Len(s) + 1)
     ELSE Slice(s, i, m) \o <<" ">>
          \o replaceBlockComments(s, IndexFrom(s, <<"*", "/">>, m + 2) + 2)

removeComments(s) ==
  LET p1 == replaceLineComments(s, <<"-", "-">>, 1)
      p2 == replaceBlockComments(p1, 1)
      p3 == replaceLineComments(p2, <<"#">>, 1)
  IN trim(p3)

(***************************************************************************)
(* The fixed policy tables.                                                *)
(***************************************************************************)
MAX_LIMIT == 1000

DEFAULT_LIMIT == 100

\* the table the module documentation describes: users read only
ROLE_PERMISSIONS_ReadOnlyUser ==
  [creator |-> <<"SELECT", "INSERT", "UPDATE", "DELETE">>,
   user |-> <<"SELECT">>]

ROLE_PERMISSIONS ==
  [creator |-> <<"SELECT", "INSERT", "UPDATE", "DELETE">>,
   user |-> <<"SELECT", "INSERT", "UPDATE", "DELETE">>]

DDL_KEYWORDS ==
  << <<"D","R","O","P">>, <<"A","L","T","E","R">>, <<"T","R","U","N","C","A","T","E">>, <<"C","R","E","A","T","E">>, <<"G","R","A","N","T">>, <<"R","E","V","O","K","E">> >>

\* the alternation (TABLE|INDEX|VIEW|DATABASE) of detectOperationType
DDL_OBJECTS ==
  << <<"T","A","B","L","E">>, <<"I","N","D","E","X">>, <<"V","I","E","W">>, <<"D","A","T","A","B","A","S","E">> >>

BLOCKED_PATTERNS ==
  << <<"I","N","T","O"," ","O","U","T","F","I","L","E">>, <<"I","N","T","O"," ","D","U","M","P","F","I","L","E">>, <<"L","O","A","D","_","F","I","L","E">>, <<"E","X","E","C","U","T","E">>, <<"E","X","E","C">> >>

skipList ==
  << <<"c","o","u","n","t">>, <<"s","u","m">>, <<"a","v","g">>, <<"m","a","x">>, <<"m","i","n">>, <<"n","o","w">>, <<"c","u","r","r","e","n","t","_","t","i","m","e","s","t","a","m","p">>, <<"i","d">> >>

KwSelect == <<"S","E","L","E","C","T">>

KwWith == <<"W","I","T","H">>

KwInsert == <<"I","N","S","E","R","T">>

KwUpdate == <<"U","P","D","A","T","E">>

KwDelete == <<"D","E","L","E","T","E">>

KwFrom == <<"F","R","O","M">>

KwJoin == <<"J","O","I","N">>

KwInto == <<"I","N","T","O">>

KwSet == <<"S","E","T">>

KwWhere == <<"W","H","E","R","E">>

KwValues == <<"V","A","L","U","E","S">>

KwLimit == <<"L","I","M","I","T">>

(***************************************************************************)
(* hasMultipleStatements                                                   *)
(***************************************************************************)
\* s.replace(/q[^q]*q/g, '') for a quote character q, from position i on
RECURSIVE removeQuoted(_, _, _)
removeQuoted(s, q, i) ==
  LET open == Least({j \in i..Len(s) : s[j] = q /\ FindClass(s, {q}, j + 1) <= Len(s)})
  IN IF open = 0 THEN Slice(s, i, Len(s) + 1)
     ELSE Slice(s, i, open) \o removeQuoted(s, q, FindClass(s, {q}, open + 1) + 1)

\* statements.filter(s => s.trim().length > 0), as the indices that are kept
nonEmpty(statements) == {i \in 1..Len(statements) : Len(trim(statements[i])) > 0}

\* the fragments that are left of noStrings.split(';') after that filter
statementFragments(text) ==
  nonEmpty(split(removeQuoted(removeQuoted(removeComments(text), "'", 1), "\"", 1), ";"))

hasMultipleStatements(text) == Cardinality(statementFragments(text)) > 1

(***************************************************************************)
(* detectOperationType                                                     *)
(***************************************************************************)
\* new RegExp(`^${keyword}\\b`).test(cleaned)
leadingKeyword(cleaned, keyword) ==
  startsWith(cleaned, keyword) /\ WordBoundary(cleaned, Len(keyword) + 1)

\* new RegExp(`\\b${keyword}\\s+(TABLE|INDEX|VIEW|DATABASE)`, 'i').test(cleaned)
keywordBeforeObject(cleaned, keyword) ==
  \E i \in 1..Len(cleaned) :
    /\ WordBoundary(cleaned, i)
    /\ MatchAt(cleaned, i, keyword)
    /\ i + Len(keyword) <= Len(cleaned)
    /\ cleaned[i + Len(keyword)] \in WhiteSpace
    /\ LET k == SkipClass(cleaned, WhiteSpace, i + Len(keyword))
       IN \E o \in 1..Len(DDL_OBJECTS) : MatchAt(cleaned, k, DDL_OBJECTS[o])

\* the body of detectOperationType once `cleaned` is computed
operationOf(cleaned) ==
  IF \E d \in 1..Len(DDL_KEYWORDS) :
       leadingKeyword(cleaned, DDL_KEYWORDS[d]) \/ keywordBeforeObject(cleaned, DDL_KEYWORDS[d])
  THEN "DDL"
  ELSE IF startsWith(cleaned, KwSelect) \/ startsWith(cleaned, KwWith) THEN "SELECT"
  ELSE IF startsWith(cleaned, KwInsert) THEN "INSERT"
  ELSE IF startsWith(cleaned, KwUpdate) THEN "UPDATE"
  ELSE IF startsWith(cleaned, KwDelete) THEN "DELETE"
  ELSE "UNKNOWN"

detectOperationType(text) == operationOf(trim(toUpperCase(removeComments(text))))

(***************************************************************************)
(* extractTableNames                                                       *)
(***************************************************************************)
\* u matches, at position j, the words of `words` each followed by \s+ :
\* the position after the last \s+, or 0
RECURSIVE afterWords(_, _, _)
afterWords(u, j, words) ==
  IF words = <<>> THEN j
  ELSE LET w == Head(words)
           e == j + Len(w)
       IN IF MatchAt(u, j, w) /\ e <= Len(u) /\ u[e] \in WhiteSpace
          THEN afterWords(u, SkipClass(u, WhiteSpace, e), Tail(words))
          ELSE 0

\* p when [a-zA-Z_] matches u at position p, else 0
identAt(u, p) == IF p > 0 /\ p <= Len(u) /\ u[p] \in IdentStart THEN p ELSE 0

\* /\b<words joined by \s+>\s+([a-zA-Z_][a-zA-Z0-9_]*)/i matches at position j:
\* the position of the identifier, or 0
identAfterAt(u, words, j) == identAt(u, IF WordBoundary(u, j) THEN afterWords(u, j, words) ELSE 0)

\* the identifiers, lower-cased, of every match of that expression (flag g) from position i on
RECURSIVE identsAfter(_, _, _, _)

\* the match whose identifier starts at p, and the matches after it (p = 0: none is left)
identsFrom(s, u, words, p) ==
  IF p = 0 THEN <<>>
  ELSE <<toLowerCase(Slice(s, p, SkipClass(s, WordChars, p)))>>
       \o identsAfter(s, u, words, SkipClass(s, WordChars, p))

identsAfter(s, u, words, i) ==
  identsFrom(s, u, words,
             identAfterAt(u, words, Least({j \in i..Len(s) : identAfterAt(u, words, j) > 0})))

\* the five loops of extractTableNames over `cleaned` (u is cleaned in upper case)
tableMatches(cleaned, u) ==
  dedup(identsAfter(cleaned, u, <<KwFrom>>, 1)
        \o identsAfter(cleaned, u, <<KwJoin>>, 1)
        \o identsAfter(cleaned, u, <<KwInsert, KwInto>>, 1)
        \o identsAfter(cleaned, u, <<KwUpdate>>, 1)
        \o identsAfter(cleaned, u, <<KwDelete, KwFrom>>, 1))

extractTableNames(text) == tableMatches(removeComments(text), toUpperCase(removeComments(text)))

(***************************************************************************)
(* extractColumnNames                                                      *)
(***************************************************************************)
\* the least e >= i where u matches \s+FROM, or 0
spaceFromAt(u, i) ==
  Least({e \in i..Len(u) : u[e] \in WhiteSpace /\ MatchAt(u, SkipClass(u, WhiteSpace, e), KwFrom)})

\* /SELECT\s+([\s\S]+?)\s+FROM/i matched at position i: <<start, end>> of the
\* captured group (end exclusive), or <<0, 0>>.
\* \s+ is greedy: the group starts at the first character w that is no white
\* space; when that fails, \s+ gives back characters one at a time and the
\* lazy group then is the single blank two places before w.
selectGroupAt(u, i) ==
  LET a == i + Len(KwSelect)
      w == SkipClass(u, WhiteSpace, a)
      e == spaceFromAt(u, w + 1)
  IN IF MatchAt(u, i, KwSelect) /\ a <= Len(u) /\ u[a] \in WhiteSpace
     THEN IF w <= Len(u) /\ e > 0 THEN <<w, e>>
          ELSE IF w - a >= 3 /\ MatchAt(u, w, KwFrom) THEN <<w - 2, w - 1>>
          ELSE <<0, 0>>
     ELSE <<0, 0>>

\* the first match of that expression in u (selectGroupAt(u, 0) is <<0, 0>>)
selectGroup(u) == selectGroupAt(u, Least({j \in 1..Len(u) : selectGroupAt(u, j)[1] > 0}))

\* part.trim().match(/^([a-zA-Z_][a-zA-Z0-9_]*)/): the leading identifier, or << >>
leadingIdent(part) ==
  LET p == trim(part)
  IN IF p # <<>> /\ p[1] \in IdentStart THEN Slice(p, 1, SkipClass(p, WordChars, 1)) ELSE <<>>

\* the identifiers, lower-cased, that lead the parts of selectMatch[1].split(',')
leadingIdents(parts) ==
  SelectSeq([k \in 1..Len(parts) |-> toLowerCase(leadingIdent(parts[k]))], LAMBDA c : c # <<>>)

\* the columns of the captured select list, unless it is "*"
selectList(list) == IF trim(list) = <<"*">> THEN <<>> ELSE leadingIdents(split(list, ","))

\* the branch on selectMatch, whose group is g
selectMatched(cleaned, g) == IF g[1] = 0 THEN <<>> ELSE selectList(Slice(cleaned, g[1], g[2]))

selectColumns(cleaned, u) == selectMatched(cleaned, selectGroup(u))

\* \(([^)]+)\) with the "(" at o and the first ")" after it at c
parenGroup(u, o, c) ==
  IF o <= Len(u) /\ u[o] = "(" /\ c <= Len(u) /\ c > o + 1 THEN <<o + 1, c>> ELSE <<0, 0>>

\* \w+\s*\(([^)]+)\) with the \w+ at n (n = 0: INSERT\s+INTO\s+ did not match)
insertNameAt(u, n) ==
  IF n > 0 /\ SkipClass(u, WordChars, n) > n
  THEN parenGroup(u, SkipClass(u, WhiteSpace, SkipClass(u, WordChars, n)),
                  FindClass(u, {")"}, SkipClass(u, WhiteSpace, SkipClass(u, WordChars, n)) + 1))
  ELSE <<0, 0>>

\* /INSERT\s+INTO\s+\w+\s*\(([^)]+)\)/i matched at position i:
\* <<start, end>> of the captured group, or <<0, 0>>
insertGroupAt(u, i) == insertNameAt(u, afterWords(u, i, <<KwInsert, KwInto>>))

\* the first match of that expression in u (insertGroupAt(u, 0) is <<0, 0>>)
insertGroup(u) == insertGroupAt(u, Least({j \in 1..Len(u) : insertGroupAt(u, j)[1] > 0}))

\* insertMatch[1].split(',').map(c => c.trim().toLowerCase())
insertList(cols) == [k \in 1..Len(cols) |-> toLowerCase(trim(cols[k]))]

\* the branch on insertMatch, whose group is g
insertMatched(cleaned, g) ==
  IF g[1] = 0 THEN <<>> ELSE insertList(split(Slice(cleaned, g[1], g[2]), ","))

insertColumns(cleaned, u) == insertMatched(cleaned, insertGroup(u))

\* the least e >= i where one of the words of `stops` occurs in u, or Len(u) + 1 (the $)
stopAt(u, stops, i) ==
  LET e == Least({j \in i..Len(u) : \E k \in 1..Len(stops) : MatchAt(u, j, stops[k])})
  IN IF e = 0 THEN Len(u) + 1 ELSE e

\* /<word>\s+([\s\S]+?)(?:<stops>|$)/i matched at position i: <<start, end>>
\* of the captured group, or <<0, 0>>.  A group that would start past the end
\* gives the blank before it (\s+ gives one back).
clauseGroupAt(u, word, stops, i) ==
  LET a == i + Len(word)
      w == SkipClass(u, WhiteSpace, a)
  IN IF MatchAt(u, i, word) /\ a <= Len(u) /\ u[a] \in WhiteSpace
     THEN IF w <= Len(u) THEN <<w, stopAt(u, stops, w + 1)>>
          ELSE IF w - a >= 2 THEN <<w - 1, w>>
          ELSE <<0, 0>>
     ELSE <<0, 0>>

\* the first match of that expression in u (clauseGroupAt(u, word, stops, 0) is <<0, 0>>)
clauseGroup(u, word, stops) ==
  clauseGroupAt(u, word, stops, Least({j \in 1..Len(u) : clauseGroupAt(u, word, stops, j)[1] > 0}))

\* /([a-zA-Z_][a-zA-Z0-9_]*)\s*=/i matches c at position j: the position of the "=", or 0
setIdentAt(c, j) ==
  LET k == SkipClass(c, WhiteSpace, SkipClass(c, WordChars, j))
  IN IF c[j] \in IdentStart /\ k <= Len(c) /\ c[k] = "=" THEN k ELSE 0

\* every match of that expression (flag g) in c from position i on
RECURSIVE setIdents(_, _)

\* the match that starts at j, and the matches after it (j = 0: none is left)
setIdentsFrom(c, j) ==
  IF j = 0 THEN <<>>
  ELSE <<toLowerCase(Slice(c, j, SkipClass(c, WordChars, j)))>>
       \o setIdents(c, setIdentAt(c, j) + 1)

setIdents(c, i) == setIdentsFrom(c, Least({k \in i..Len(c) : setIdentAt(c, k) > 0}))

\* the alternation (?:=|<|>|LIKE|IN|IS|BETWEEN), in its order
WHERE_OPERATORS ==
  << <<"=">>, <<"<">>, <<">">>, <<"L","I","K","E">>, <<"I","N">>, <<"I","S">>, <<"B","E","T","W","E","E","N">> >>

\* the length of the first alternative of WHERE_OPERATORS that occurs in u at k, or 0
RECURSIVE operatorAt(_, _, _)
operatorAt(u, k, n) ==
  IF n > Len(WHERE_OPERATORS) THEN 0
  ELSE IF MatchAt(u, k, WHERE_OPERATORS[n]) THEN Len(WHERE_OPERATORS[n])
  ELSE operatorAt(u, k, n + 1)

\* the identifier that starts at j and ends (exclusive) at most at q, the
\* longest first: <<end, position after the operator>>, or <<0, 0>>.  At the
\* full length p the \s* may skip blanks; a shortened identifier is followed
\* by a word character, so the operator starts right there.
RECURSIVE identBeforeOperator(_, _, _, _)
identBeforeOperator(u, j, p, q) ==
  IF q <= j THEN <<0, 0>>
  ELSE LET k == IF q = p THEN SkipClass(u, WhiteSpace, q) ELSE q
           n == operatorAt(u, k, 1)
       IN IF n > 0 THEN <<q, k + n>> ELSE identBeforeOperator(u, j, p, q - 1)

\* /([a-zA-Z_][a-zA-Z0-9_]*)\s*(?:=|<|>|LIKE|IN|IS|BETWEEN)/i matches u at
\* position j: <<end of the identifier, position after the operator>>, or <<0, 0>>
whereIdentAt(u, j) ==
  LET p == SkipClass(u, WordChars, j)
  IN IF u[j] \in IdentStart THEN identBeforeOperator(u, j, p, p) ELSE <<0, 0>>

\* every match of that expression (flag g) in c from position i on (u is c in upper case)
RECURSIVE whereIdents(_, _, _)

\* the match m = whereIdentAt(u, j) that starts at j, and the matches after it
whereIdentsFrom(c, u, j, m) ==
  IF j = 0 THEN <<>>
  ELSE <<toLowerCase(Slice(c, j, m[1]))>> \o whereIdents(c, u, m[2])

\* the first match from position i on, at j
whereIdentsAt(c, u, j) == whereIdentsFrom(c, u, j, IF j = 0 THEN <<0, 0>> ELSE whereIdentAt(u, j))

whereIdents(c, u, i) == whereIdentsAt(c, u, Least({k \in i..Len(c) : whereIdentAt(u, k)[1] > 0}))

\* the branch on setMatch, whose group is g
setMatched(cleaned, g) == IF g[1] = 0 THEN <<>> ELSE setIdents(Slice(cleaned, g[1], g[2]), 1)

updateColumns(cleaned, u) == setMatched(cleaned, clauseGroup(u, KwSet, <<KwWhere>>))

\* the branch on whereMatch, whose group is g
whereMatched(cleaned, u, g) ==
  IF g[1] = 0 THEN <<>> ELSE whereIdents(Slice(cleaned, g[1], g[2]), Slice(u, g[1], g[2]), 1)

whereColumns(cleaned, u) ==
  whereMatched(cleaned, u,
               clauseGroup(u, KwWhere, << <<"O","R","D","E","R">>, <<"G","R","O","U","P">>, KwLimit >>))

\* the four extractions of extractColumnNames over `cleaned` (u is cleaned in upper case)
columnMatches(cleaned, u) ==
  dedup(selectColumns(cleaned, u) \o insertColumns(cleaned, u)
        \o updateColumns(cleaned, u) \o whereColumns(cleaned, u))

extractColumnNames(text) ==
  columnMatches(removeComments(text), toUpperCase(removeComments(text)))

(***************************************************************************)
(* analyzeOperation                                                        *)
(***************************************************************************)
\* /\),\s*\(/ matches u at position i: the position of the "(", or 0
tupleBreakAt(u, i) ==
  LET k == SkipClass(u, WhiteSpace, i + 2)
  IN IF MatchAt(u, i, <<")", ",">>) /\ k <= Len(u) /\ u[k] = "(" THEN k ELSE 0

\* the number of matches of that expression (flag g) in u from position i on
RECURSIVE tupleBreaks(_, _)
tupleBreaks(u, i) ==
  LET m == Least({j \in i..Len(u) : tupleBreakAt(u, j) > 0})
  IN IF m = 0 THEN 0 ELSE 1 + tupleBreaks(u, tupleBreakAt(u, m) + 1)

\* the branches of the switch for UPDATE and DELETE: <<risk, rows, warnings>>
writeRisk(upperSQL, noWhereWarning, whereWarning) ==
  IF ~includes(upperSQL, KwWhere)
  THEN <<"critical", "all", <<noWhereWarning>>>>
  ELSE IF includes(upperSQL, <<"W","H","E","R","E"," ","1","=","1">>) \/ includes(upperSQL, <<"W","H","E","R","E"," ","T","R","U","E">>)
       THEN <<"critical", "all", <<whereWarning, <<"where_matches_all_rows", 0>>>>>>
       ELSE <<"high", "multiple", <<whereWarning>>>>

\* the branch of the switch for INSERT: <<risk, rows, warnings>>
insertRisk(upperSQL) ==
  LET valuesCount == tupleBreaks(upperSQL, 1) + 1
  IN IF includes(upperSQL, KwValues)
     THEN <<"moderate", IF valuesCount = 1 THEN "single" ELSE "multiple",
            << <<"adds_new_records", 0>>, <<"inserting_rows", valuesCount>> >> >>
     ELSE IF includes(upperSQL, KwSelect)
          THEN <<"high", "multiple",
                 << <<"adds_new_records", 0>>, <<"insert_from_select", 0>> >> >>
          ELSE <<"moderate", "unknown", << <<"adds_new_records", 0>> >> >>

\* a write that leaves requiresConfirmation as it was initialised
writeUnconfirmed(b) == [risk |-> b[1], rows |-> b[2], warnings |-> b[3], confirm |-> FALSE]

\* a warning is <<its text, the number it interpolates (0 when none)>>
\* a branch <<risk, rows, warnings>> of a write, which sets requiresConfirmation
write(b) == [risk |-> b[1], rows |-> b[2], warnings |-> b[3], confirm |-> TRUE]

\* the switch of analyzeOperation
switchOn(opType, upperSQL) ==
  CASE opType = "SELECT" ->
         [risk |-> "safe", rows |-> "multiple", warnings |-> <<>>, confirm |-> FALSE]
    [] opType = "INSERT" -> write(insertRisk(upperSQL))
    [] opType = "UPDATE" ->
         write(writeRisk(upperSQL, <<"no_where_updates_all_rows", 0>>,
                         <<"modifies_existing_records", 0>>))
    [] opType = "DELETE" ->
         write(writeRisk(upperSQL, <<"no_where_deletes_all_rows", 0>>,
                         <<"permanently_deletes_records", 0>>))
    [] opType = "DDL" ->
         [risk |-> "critical", rows |-> "unknown",
          warnings |-> << <<"ddl_blocked", 0>> >>, confirm |-> TRUE]
    [] OTHER ->
         [risk |-> "high", rows |-> "unknown",
          warnings |-> << <<"unknown_operation", 0>> >>, confirm |-> TRUE]

\* the OperationAnalysis analyzeOperation returns, r being what the switch has set
analysis(opType, r, tables, columns) ==
  [operation_type |-> opType,
   risk_level |-> r.risk,
   affected_tables |-> tables,
   affected_columns |-> columns,
   estimated_rows |-> r.rows,
   warnings |-> r.warnings,
   requires_confirmation |-> r.confirm]

analyzeOperation(text, sch) ==
  analysis(detectOperationType(text), switchOn(detectOperationType(text), toUpperCase(text)),
           extractTableNames(text), extractColumnNames(text))

(***************************************************************************)
(* hasBlockedPatterns and enforceLimit                                     *)
(***************************************************************************)
\* the first pattern of BLOCKED_PATTERNS from index n on that upper includes, or << >> (null)
RECURSIVE firstBlocked(_, _)
firstBlocked(upper, n) ==
  IF n > Len(BLOCKED_PATTERNS) THEN <<>>
  ELSE IF includes(upper, BLOCKED_PATTERNS[n]) THEN BLOCKED_PATTERNS[n]
  ELSE firstBlocked(upper, n + 1)

\* hasBlockedPatterns without its toUpperCase
hasBlockedPatternsCaseSensitive(text) == firstBlocked(text, 1)

hasBlockedPatterns(text) == firstBlocked(toUpperCase(text), 1)

DigitChars == <<"0","1","2","3","4","5","6","7","8","9">>

\* parseInt(digits, 10) of a string of decimal digits
RECURSIVE parseInt(_)
parseInt(d) ==
  IF d = <<>> THEN 0
  ELSE 10 * parseInt(Slice(d, 1, Len(d)))
       + (CHOOSE v \in 0..9 : DigitChars[v + 1] = d[Len(d)])

\* `${n}` of a natural number
RECURSIVE numberToString(_)
numberToString(n) ==
  IF n < 10 THEN <<DigitChars[n + 1]>>
  ELSE numberToString(n \div 10) \o <<DigitChars[(n % 10) + 1]>>

\* (\d+) at position d of u, for a match that starts at i (d = 0: \bLIMIT\s+ did not match)
digitsAt(u, i, d) ==
  IF d > 0 /\ SkipClass(u, Digits, d) > d THEN <<i, d, SkipClass(u, Digits, d)>> ELSE <<0, 0, 0>>

\* /\bLIMIT\s+(\d+)/i matches u at position i:
\* <<start of LIMIT, start of the digits, end of the digits>>, or <<0, 0, 0>>
limitAt(u, i) == digitsAt(u, i, IF WordBoundary(u, i) THEN afterWords(u, i, <<KwLimit>>) ELSE 0)

\* the first match of that expression in u (limitAt(u, 0) is <<0, 0, 0>>)
limitMatch(u) == limitAt(u, Least({j \in 1..Len(u) : limitAt(u, j)[1] > 0}))

\* the least i such that /;*\s*$/ matches s at i
trailerStart(s) ==
  Least({i \in 1..(Len(s) + 1) : SkipClass(s, WhiteSpace, SkipClass(s, {";"}, i)) > Len(s)})

\* cleaned.replace(/\bLIMIT\s+\d+/i, `LIMIT ${MAX_LIMIT}`), whose first match is inCleaned
replaceLimit(cleaned, inCleaned) ==
  IF inCleaned[1] = 0 THEN cleaned
  ELSE Slice(cleaned, 1, inCleaned[1]) \o <<"L","I","M","I","T"," ">> \o numberToString(MAX_LIMIT)
       \o Slice(cleaned, inCleaned[3], Len(cleaned) + 1)

\* cleaned.replace(/;*\s*$/, '') + ` LIMIT ${DEFAULT_LIMIT}`
appendLimit(cleaned) ==
  Slice(cleaned, 1, trailerStart(cleaned)) \o <<" ","L","I","M","I","T"," ">> \o numberToString(DEFAULT_LIMIT)

\* the body of enforceLimit once `cleaned` and the match existingLimit are computed
limited(text, cleaned, existingLimit) ==
  IF existingLimit[1] > 0
  THEN IF parseInt(Slice(text, existingLimit[2], existingLimit[3])) > MAX_LIMIT
       THEN replaceLimit(cleaned, limitMatch(toUpperCase(cleaned)))
       ELSE cleaned
  ELSE IF detectOperationType(text) = "SELECT" THEN appendLimit(cleaned) ELSE cleaned

enforceLimit(text) == limited(text, trim(text), limitMatch(toUpperCase(text)))

(***************************************************************************)
(* validateSQL                                                             *)
(***************************************************************************)
\* Array.prototype.join
RECURSIVE join(_, _)
join(a, sep) ==
  IF a = <<>> THEN <<>>
  ELSE IF Len(a) = 1 THEN a[1]
  ELSE a[1] \o sep \o join(Tail(a), sep)

\* Array.prototype.flatMap over arrays of arrays
RECURSIVE flatten(_)
flatten(a) == IF a = <<>> THEN <<>> ELSE Head(a) \o flatten(Tail(a))

\* a string literal of the source as a sequence of characters
MsgEmpty ==
  <<"Q","u","e","r","y"," ","c","a","n","n","o","t"," ","b","e"," ","e","m","p","t","y",".">>

MsgMultiple ==
  <<"M","u","l","t","i","p","l","e"," ","S","Q","L"," ","s","t","a","t","e","m","e","n","t","s"," ","a","r","e"," ","n","o","t"," ","a","l","l","o","w","e","d","."," ","P","l","e","a","s","e"," ","s","u","b","m","i","t"," ","o","n","e"," ","q","u","e","r","y"," ","a","t"," ","a"," ","t","i","m","e",".">>

MsgBlocked(pattern) ==
  <<"B","l","o","c","k","e","d"," ","p","a","t","t","e","r","n"," ","d","e","t","e","c","t","e","d",":"," ","\"">> \o pattern
  \o <<"\"","."," ","T","h","i","s"," ","o","p","e","r","a","t","i","o","n"," ","i","s"," ","n","o","t"," ","p","e","r","m","i","t","t","e","d",".">>

MsgDdl ==
  <<"D","D","L"," ","o","p","e","r","a","t","i","o","n","s"," ","(","C","R","E","A","T","E",","," ","D","R","O","P",","," ","A","L","T","E","R",","," ","T","R","U","N","C","A","T","E",")"," ","a","r","e"," ","n","o","t"," ","a","l","l","o","w","e","d","."," ","O","n","l","y"," ","d","a","t","a"," ","o","p","e","r","a","t","i","o","n","s"," ","a","r","e"," ","p","e","r","m","i","t","t","e","d",".">>

MsgRole(opType, r, allowedOps) ==
  <<"O","p","e","r","a","t","i","o","n"," ","\"">> \o opType \o <<"\""," ","i","s"," ","n","o","t"," ","a","l","l","o","w","e","d"," ","f","o","r"," ","r","o","l","e"," ","\"">> \o r
  \o <<"\"","."," ","A","l","l","o","w","e","d"," ","o","p","e","r","a","t","i","o","n","s",":"," ">> \o join(allowedOps, <<","," ">>) \o <<".">>

MsgTable(table, schemaTableNames) ==
  <<"T","a","b","l","e"," ","\"">> \o table \o <<"\""," ","d","o","e","s"," ","n","o","t"," ","e","x","i","s","t","."," ","A","v","a","i","l","a","b","l","e"," ","t","a","b","l","e","s",":"," ">>
  \o join(schemaTableNames, <<","," ">>) \o <<".">>

MsgAccess(table) ==
  <<"A","c","c","e","s","s"," ","d","e","n","i","e","d",":"," ","T","a","b","l","e"," ","\"">> \o table
  \o <<"\""," ","i","s"," ","n","o","t"," ","a","c","c","e","s","s","i","b","l","e"," ","w","i","t","h"," ","y","o","u","r"," ","p","e","r","m","i","s","s","i","o","n","s",".">>

MsgColumn(column, columnsInQueryTables) ==
  <<"C","o","l","u","m","n"," ","\"">> \o column \o <<"\""," ","d","o","e","s"," ","n","o","t"," ","e","x","i","s","t"," ","i","n"," ","t","h","e"," ","q","u","e","r","i","e","d"," ","t","a","b","l","e","(","s",")","."," ","A","v","a","i","l","a","b","l","e",":"," ">>
  \o join(Slice(columnsInQueryTables, 1, IF Len(columnsInQueryTables) < 5 THEN Len(columnsInQueryTables) + 1 ELSE 6), <<","," ">>)
  \o <<".",".",".">>

\* the spelling of an OperationType and of a role as characters
Spell ==
  [SELECT |-> KwSelect, INSERT |-> KwInsert, UPDATE |-> KwUpdate, DELETE |-> KwDelete,
   DDL |-> <<"D","D","L">>, UNKNOWN |-> <<"U","N","K","N","O","W","N">>,
   creator |-> <<"c","r","e","a","t","o","r">>, user |-> <<"u","s","e","r">>, guest |-> <<"g","u","e","s","t">>]

\* an optional argument: << >> is undefined, <<v>> is the value v
Undefined == <<>>

Some(v) == <<v>>

\* the index of the first element of a, from index i on, that is not in b, or 0
RECURSIVE firstNotIn(_, _, _)
firstNotIn(a, b, i) ==
  IF i > Len(a) THEN 0
  ELSE IF ~arrIncludes(b, a[i]) THEN i
  ELSE firstNotIn(a, b, i + 1)

\* a rejection that still hands the caller a statement to run
rejectWithSql(reason) == [is_valid |-> FALSE, reason |-> reason, sanitized_sql |-> <<>>]

reject(reason) == [is_valid |-> FALSE, reason |-> reason]

\* a fallback that lets a role without an entry run whatever is not DDL
allowedOpsOfOpenFallback(r) ==
  IF r \in DOMAIN ROLE_PERMISSIONS THEN ROLE_PERMISSIONS[r]
  ELSE <<"SELECT", "INSERT", "UPDATE", "DELETE", "UNKNOWN">>

\* ROLE_PERMISSIONS[role] || ['SELECT']
allowedOpsOf(r) ==
  IF r \in DOMAIN ROLE_PERMISSIONS THEN ROLE_PERMISSIONS[r] ELSE <<"SELECT">>

\* Step 8 guarded by the other role
allowlistAppliesToCreator(r, allowed) == r = "creator" /\ allowed # Undefined

\* Step 8 applies: role === 'user' && allowedTables
allowlistApplies(r, allowed) == r = "user" /\ allowed # Undefined

\* Step 9 of validateSQL: the columns the loop does not skip
checkedColumns(referencedColumns) ==
  SelectSeq(referencedColumns, LAMBDA c : ~arrIncludes(skipList, c))

\* Step 9 with a loop that starts at the second column
firstBadColumnFromSecond(checked, columnsInQueryTables) ==
  IF Len(columnsInQueryTables) > 0 THEN firstNotIn(checked, columnsInQueryTables, 2) ELSE 0

\* Step 9 of validateSQL: the index in `checked` of the first column the loop rejects, or 0
firstBadColumn(checked, columnsInQueryTables) ==
  IF Len(columnsInQueryTables) > 0 THEN firstNotIn(checked, columnsInQueryTables, 1) ELSE 0

\* names.map(t => t.toLowerCase())
lowerCased(names) == [k \in 1..Len(names) |-> toLowerCase(names[k])]

\* the schema's table names without toLowerCase
schemaTableNamesAsGiven(sch) == [k \in 1..Len(sch) |-> sch[k].table_name]

\* schema.map(t => t.table_name.toLowerCase())
schemaTableNamesOf(sch) == [k \in 1..Len(sch) |-> toLowerCase(sch[k].table_name)]

\* schema.filter(t => referencedTables.includes(t.table_name.toLowerCase()))
tablesInQueryOf(sch, referencedTables) ==
  SelectSeq(sch, LAMBDA t : arrIncludes(referencedTables, toLowerCase(t.table_name)))

\* tablesInQuery.flatMap(t => t.columns.map(c => c.toLowerCase()))
columnsOf(tablesInQuery) ==
  flatten([k \in 1..Len(tablesInQuery) |-> lowerCased(tablesInQuery[k].columns)])

\* Steps 10 and 11: the statement passed every check
accept(cleaned, sch) ==
  [is_valid |-> TRUE,
   sanitized_sql |-> enforceLimit(cleaned),
   operation_analysis |-> analyzeOperation(cleaned, sch)]

\* Step 9, over the columns the loop does not skip
validateColumns(cleaned, sch, checked, columnsInQueryTables) ==
  IF firstBadColumn(checked, columnsInQueryTables) > 0
  THEN reject(MsgColumn(checked[firstBadColumn(checked, columnsInQueryTables)],
                        columnsInQueryTables))
  ELSE accept(cleaned, sch)

\* Steps 7 and 8, then the rest
validateTables(cleaned, sch, r, allowed, referencedTables, schemaTableNames) ==
  IF firstNotIn(referencedTables, schemaTableNames, 1) > 0
  THEN reject(MsgTable(referencedTables[firstNotIn(referencedTables, schemaTableNames, 1)],
                       schemaTableNames))
  ELSE IF allowlistApplies(r, allowed) /\ firstNotIn(referencedTables, lowerCased(allowed[1]), 1) > 0
  THEN reject(MsgAccess(referencedTables[firstNotIn(referencedTables, lowerCased(allowed[1]), 1)]))
  ELSE validateColumns(cleaned, sch, checkedColumns(extractColumnNames(cleaned)),
                       columnsOf(tablesInQueryOf(sch, referencedTables)))

\* Step 5: ROLE_PERMISSIONS against the operation type, then Step 6 and the rest
validateOperation(cleaned, sch, r, allowed, opType, allowedOps) ==
  IF ~arrIncludes(allowedOps, opType)
  THEN reject(MsgRole(Spell[opType], Spell[r], [k \in 1..Len(allowedOps) |-> Spell[allowedOps[k]]]))
  ELSE validateTables(cleaned, sch, r, allowed, extractTableNames(cleaned), schemaTableNamesOf(sch))

\* validateCleaned without the gate on the operation type (Steps 4 and 5)
validateCleanedUngated(cleaned, sch, r, allowed) ==
  IF hasMultipleStatements(cleaned) THEN reject(MsgMultiple)
  ELSE IF hasBlockedPatterns(cleaned) # <<>> THEN reject(MsgBlocked(hasBlockedPatterns(cleaned)))
  ELSE validateTables(cleaned, sch, r, allowed, extractTableNames(cleaned), schemaTableNamesOf(sch))

\* validateCleaned with Step 3 moved before Step 2
validateCleanedBlockedFirst(cleaned, sch, r, allowed) ==
  IF hasBlockedPatterns(cleaned) # <<>> THEN reject(MsgBlocked(hasBlockedPatterns(cleaned)))
  ELSE IF hasMultipleStatements(cleaned) THEN reject(MsgMultiple)
  ELSE IF detectOperationType(cleaned) = "DDL" THEN reject(MsgDdl)
  ELSE validateOperation(cleaned, sch, r, allowed, detectOperationType(cleaned), allowedOpsOf(r))

\* Steps 2, 3 and 4 over the comment-free text, then the rest
validateCleaned(cleaned, sch, r, allowed) ==
  IF hasMultipleStatements(cleaned) THEN reject(MsgMultiple)
  ELSE IF hasBlockedPatterns(cleaned) # <<>> THEN reject(MsgBlocked(hasBlockedPatterns(cleaned)))
  ELSE IF detectOperationType(cleaned) = "DDL" THEN reject(MsgDdl)
  ELSE validateOperation(cleaned, sch, r, allowed, detectOperationType(cleaned), allowedOpsOf(r))

validateSQL(text, sch, r, allowed) ==
  IF Len(trim(text)) = 0 THEN reject(MsgEmpty)
  ELSE validateCleaned(removeComments(text), sch, r, allowed)

(***************************************************************************)
(* The callers' inputs.                                                    *)
(***************************************************************************)
\* the demo schema of the validate-query handler (column names only)
DemoSchema ==
  << [table_name |-> <<"d","e","m","o","_","u","s","e","r","s">>,
      columns |-> << <<"i","d">>, <<"e","m","a","i","l">>, <<"n","a","m","e">>, <<"c","r","e","a","t","e","d","_","a","t">> >>],
     [table_name |-> <<"d","e","m","o","_","o","r","d","e","r","s">>,
      columns |-> << <<"i","d">>, <<"u","s","e","r","_","i","d">>, <<"t","o","t","a","l","_","a","m","o","u","n","t">>, <<"s","t","a","t","u","s">>, <<"c","r","e","a","t","e","d","_","a","t">> >>],
     [table_name |-> <<"d","e","m","o","_","p","r","o","d","u","c","t","s">>,
      columns |-> << <<"i","d">>, <<"n","a","m","e">>, <<"p","r","i","c","e">>, <<"c","a","t","e","g","o","r","y">>, <<"i","n","_","s","t","o","c","k">> >>] >>

\* a caller's schema snapshot with mixed-case names and a table without columns
BareSchema ==
  << [table_name |-> <<"D","e","m","o","_","U","s","e","r","s">>, columns |-> <<>>],
     [table_name |-> <<"p","h","a","n","t","o","m">>, columns |-> << <<"N","a","m","e">> >>] >>

Schemas == {DemoSchema, BareSchema}

\* creator and user are the declared roles; guest is a string a caller may pass
Roles == {"creator", "user", "guest"}

Allowlists == {Undefined, Some(<< <<"D","e","m","o","_","U","s","e","r","s">> >>)}

\* complete statements a caller may submit
Bases ==
  { <<"S","E","L","E","C","T"," ","*"," ","F","R","O","M"," ","d","e","m","o","_","u","s","e","r","s">>,
    <<"-","-"," ","a","l","l","\n","S","E","L","E","C","T"," ","/","*"," ","E","X","E","C",";"," ","*","/"," ","e","m","a","i","l"," ","F","R","O","M"," ","d","e","m","o","_","u","s","e","r","s">>,
    <<"S","E","L","E","C","T"," ","n","a","m","e",","," ","b","o","g","u","s"," ","F","R","O","M"," ","p","h","a","n","t","o","m">>,
    <<"D","E","L","E","T","E"," ","F","R","O","M"," ","d","e","m","o","_","u","s","e","r","s">>,
    <<"U","P","D","A","T","E"," ","d","e","m","o","_","o","r","d","e","r","s"," ","S","E","T"," ","s","t","a","t","u","s"," ","="," ","'","x","'">>,
    <<"I","N","S","E","R","T"," ","I","N","T","O"," ","d","e","m","o","_","u","s","e","r","s"," ","(","i","d",","," ","n","a","m","e",")"," ","V","A","L","U","E","S"," ","(","1",","," ","'","a","'",")">>,
    <<"D","R","O","P"," ","T","A","B","L","E"," ","d","e","m","o","_","u","s","e","r","s">>,
    <<"E","X","P","L","A","I","N"," ","S","E","L","E","C","T"," ","i","d"," ","F","R","O","M"," ","g","h","o","s","t">>,
    <<"S","E","L","E","C","T"," ","1">>,
    <<" "," ">>,
    <<"S","E","L","E","C","T"," ","\"","'","\""," ","F","R","O","M"," ","d","e","m","o","_","u","s","e","r","s">>,
    <<"s","e","l","e","c","t"," ","e","x","e","c","u","t","e","d","_","a","t"," ","f","r","o","m"," ","D","e","m","o","_","U","s","e","r","s">> }

\* text a caller may append to a statement, in the order it is appended
Clauses ==
  << <<" ","J","O","I","N"," ","D","e","m","o","_","O","r","d","e","r","s">>,
     <<" ","J","O","I","N"," ","g","h","o","s","t">>,
     <<" ","W","H","E","R","E"," ","b","o","g","u","s"," ","="," ","1">>,
     <<" ","I","N","T","O"," ","O","U","T","F","I","L","E"," ","'","f","'">>,
     <<";"," ","D","E","L","E","T","E"," ","F","R","O","M"," ","d","e","m","o","_","u","s","e","r","s"," ","W","H","E","R","E"," ","i","d"," ","="," ","\"","'","\"">> >>

\* the most clauses appended to a base statement
MaxClauses == 2

\* the choices of at most MaxClauses clauses
ClauseSets == {S \in SUBSET (1..Len(Clauses)) : Cardinality(S) <= MaxClauses}

\* the statement b with the clauses of S appended
withClauses(b, S) == b \o flatten([i \in 1..Len(Clauses) |-> IF i \in S THEN Clauses[i] ELSE <<>>])

\* further statements a caller may submit, as they are
Singles ==
  { <<"S","E","L","E","C","T"," ","*"," ","F","R","O","M"," ","d","e","m","o","_","u","s","e","r","s"," ","L","I","M","I","T"," ","5","0","0","0">>,
    <<"S","E","L","E","C","T"," ","*"," ","F","R","O","M"," ","d","e","m","o","_","u","s","e","r","s"," ","W","H","E","R","E"," ","i","d"," ","I","N"," ","(","S","E","L","E","C","T"," ","i","d"," ","F","R","O","M"," ","d","e","m","o","_","o","r","d","e","r","s"," ","L","I","M","I","T"," ","5",")"," ","L","I","M","I","T"," ","5","0","0","0">>,
    <<"S","E","L","E","C","T"," ","*"," ","F","R","O","M"," ","d","e","m","o","_","u","s","e","r","s"," ","l","i","m","i","t"," ","1","0",";">>,
    <<"S","E","L","E","C","T"," ","*"," ","F","R","O","M"," ","d","e","m","o","_","u","s","e","r","s",";"," ",";">>,
    <<"S","E","L","E","C","T"," ","*"," ","F","R","O","M"," ","d","e","m","o","_","u","s","e","r","s"," ",";","\n">>,
    <<"D","E","L","E","T","E"," ","F","R","O","M"," ","d","e","m","o","_","u","s","e","r","s"," ","L","I","M","I","T"," ","5","0","0","0">>,
    <<"U","P","D","A","T","E"," ","d","e","m","o","_","o","r","d","e","r","s"," ","S","E","T"," ","s","t","a","t","u","s"," ","="," ","'","n","o","w","h","e","r","e","'">>,
    <<"D","E","L","E","T","E"," ","F","R","O","M"," ","d","e","m","o","_","u","s","e","r","s"," ","W","H","E","R","E"," ","1","=","1">>,
    <<"u","p","d","a","t","e"," ","d","e","m","o","_","o","r","d","e","r","s"," ","s","e","t"," ","s","t","a","t","u","s"," ","="," ","'","x","'"," ","w","h","e","r","e"," ","t","r","u","e">>,
    <<"D","E","L","E","T","E"," ","F","R","O","M"," ","d","e","m","o","_","u","s","e","r","s"," ","W","H","E","R","E"," ","1","=","1","0">>,
    <<"I","N","S","E","R","T"," ","I","N","T","O"," ","d","e","m","o","_","u","s","e","r","s"," ","(","i","d",","," ","n","a","m","e",")"," ","S","E","L","E","C","T"," ","i","d",","," ","n","a","m","e"," ","F","R","O","M"," ","d","e","m","o","_","o","r","d","e","r","s">>,
    <<"I","N","S","E","R","T"," ","I","N","T","O"," ","d","e","m","o","_","u","s","e","r","s"," ","(","i","d",")"," ","S","E","L","E","C","T"," ","i","d"," ","F","R","O","M"," ","o","l","d","_","v","a","l","u","e","s">>,
    <<"S","E","L","E","C","T","E","D">>,
    <<"S","E","L","E","C","T"," ","*"," ","F","R","O","M"," ","d","e","m","o","_","u","s","e","r","s",","," ","d","e","m","o","_","o","r","d","e","r","s">>,
    <<"W","I","T","H"," ","g","o","n","e"," ","A","S"," ","(","D","E","L","E","T","E"," ","F","R","O","M"," ","d","e","m","o","_","u","s","e","r","s"," ","R","E","T","U","R","N","I","N","G"," ","i","d",")"," ","S","E","L","E","C","T"," ","1">>,
    <<"D","E","L","E","T","E"," ","F","R","O","M"," ","d","e","m","o","_","u","s","e","r","s"," ","-","-"," ","W","H","E","R","E"," ","i","d"," ","="," ","1">>,
    <<"S","E","L","E","C","T"," ","1",";"," ","D","R","O","P"," ","T","A","B","L","E"," ","d","e","m","o","_","u","s","e","r","s">> }

Statements == {withClauses(b, S) : b \in Bases, S \in ClauseSets} \cup Singles

(***************************************************************************)
(* The AI command console: state.ai of the application state, the actions *)
(* of appReducer that change it, and what the handlers of AICommandPage    *)
(* dispatch.  Of a command entry the model keeps the id, the status and    *)
(* whether it has a statement (sql).                                       *)
(***************************************************************************)
\* initialState.ai
initialAI ==
  [mode |-> "AI", commandHistory |-> <<>>, activeCommand |-> Undefined, isProcessing |-> FALSE]

\* createAICommand(command), n being the id crypto.randomUUID() returns
createAICommand(n) == [id |-> n, status |-> "pending", sql |-> FALSE]

\* { ...cmd, ...updates }
spread(cmd, updates) ==
  [f \in DOMAIN cmd \cup DOMAIN updates |-> IF f \in DOMAIN updates THEN updates[f] ELSE cmd[f]]

\* commandHistory.map(cmd => cmd.id === id ? { ...cmd, ...updates } : cmd)
historyUpdated(history, id, updates) ==
  SubSeq([k \in 1..Len(history) |->
            IF history[k].id = id THEN spread(history[k], updates) ELSE history[k]],
         1, Len(history))

\* activeCommand?.id === id ? { ...activeCommand, ...updates } : activeCommand
activeUpdated(active, id, updates) ==
  IF active # Undefined /\ active[1].id = id THEN Some(spread(active[1], updates)) ELSE active

\* appReducer, on state.ai
appReducer(state, action) ==
  CASE action.type = "SET_AI_MODE" -> [state EXCEPT !.mode = action.payload]
    [] action.type = "ADD_AI_COMMAND" ->
         [state EXCEPT !.commandHistory = Append(state.commandHistory, action.payload)]
    [] action.type = "UPDATE_AI_COMMAND" ->
         [state EXCEPT
            !.commandHistory =
               historyUpdated(state.commandHistory, action.payload.id, action.payload.updates),
            !.activeCommand =
               activeUpdated(state.activeCommand, action.payload.id, action.payload.updates)]
    [] action.type = "SET_ACTIVE_AI_COMMAND" -> [state EXCEPT !.activeCommand = action.payload]
    [] action.type = "SET_AI_PROCESSING" -> [state EXCEPT !.isProcessing = action.payload]
    [] action.type = "CLEAR_AI_COMMANDS" ->
         [state EXCEPT !.commandHistory = <<>>, !.activeCommand = Undefined]
    [] OTHER -> state

\* the state after the dispatches of `actions`, in their order
RECURSIVE dispatched(_, _)
dispatched(state, actions) ==
  IF actions = <<>> THEN state
  ELSE dispatched(appReducer(state, Head(actions)), Tail(actions))

\* the actions the handlers dispatch
addAICommand(entry) == [type |-> "ADD_AI_COMMAND", payload |-> entry]

updateAICommand(id, updates) ==
  [type |-> "UPDATE_AI_COMMAND", payload |-> [id |-> id, updates |-> updates]]

setActiveAICommand(active) == [type |-> "SET_ACTIVE_AI_COMMAND", payload |-> active]

setAIProcessing(flag) == [type |-> "SET_AI_PROCESSING", payload |-> flag]

clearAICommands == [type |-> "CLEAR_AI_COMMANDS"]

\* no handler awaits a call
NoTask == Undefined

\* a handler awaits the call `awaits` for the command `entry`
Awaiting(handler, awaits, entry) == Some([handler |-> handler, awaits |-> awaits, entry |-> entry])

\* handleSubmit up to its first await: what it dispatches
submitStarted(entry) == <<addAICommand(entry), setAIProcessing(TRUE)>>

\* handleSubmit after generateQuery returned: "sql" with a statement,
\* "failed" without one or with an error, "threw" when the call was rejected
submitGenerated(entry, outcome) ==
  IF outcome = "sql" THEN <<>>
  ELSE <<updateAICommand(entry.id, [status |-> "error"]), setAIProcessing(FALSE)>>

\* handleSubmit after validateQuery returned: "valid", "invalid", or
\* "threw" when the call was rejected
submitValidated(entry, outcome) ==
  CASE outcome = "valid" ->
         <<updateAICommand(entry.id, [sql |-> TRUE, status |-> "previewed"]),
           setActiveAICommand(Some(spread(entry, [sql |-> TRUE, status |-> "previewed"]))),
           setAIProcessing(FALSE)>>
    [] outcome = "invalid" ->
         <<updateAICommand(entry.id, [sql |-> TRUE, status |-> "blocked"]),
           setAIProcessing(FALSE)>>
    [] OTHER ->
         <<updateAICommand(entry.id, [status |-> "error"]), setAIProcessing(FALSE)>>

\* handleExecute after executeQuery returned: "success", "failed", or
\* "threw" when the call was rejected
executeReturned(activeCmd, outcome) ==
  IF outcome = "success"
  THEN <<updateAICommand(activeCmd.id, [status |-> "executed"]),
         setActiveAICommand(Undefined), setAIProcessing(FALSE)>>
  ELSE <<updateAICommand(activeCmd.id, [status |-> "error"]), setAIProcessing(FALSE)>>

\* handleCancel, active being state.ai.activeCommand
handleCancel(active) ==
  (IF active # Undefined THEN <<updateAICommand(active[1].id, [status |-> "blocked"])>> ELSE <<>>)
  \o <<setActiveAICommand(Undefined)>>

\* handleClearHistory
handleClearHistory == <<clearAICommands>>

\* AISQLPreview is rendered, with its buttons enabled
previewEnabled(state) ==
  /\ state.activeCommand # Undefined
  /\ state.activeCommand[1].status = "previewed"
  /\ ~state.isProcessing

(***************************************************************************)

(* The state machine: a caller holds a statement, a schema snapshot, a     *)
(* role and an optional allowlist, and calls validateSQL or                *)
(* analyzeOperation with them.  lastIndex is the state the module keeps    *)
(* between calls: the lastIndex of the three COMMENT_PATTERNS objects.     *)
(***************************************************************************)
\* no call of validateSQL has returned yet
NoResult == [pending |-> TRUE]

\* no call of analyzeOperation has returned yet
NoReport == [pending |-> TRUE]

\* the most calls one behaviour makes
MaxCalls == 3

\* a call that lower-cases the table names in the caller's array
schemaLowerCasedInPlace(sch) ==
  SubSeq([k \in 1..Len(sch) |->
            [table_name |-> toLowerCase(sch[k].table_name), columns |-> sch[k].columns]],
         1, Len(sch))

\* schema.map and schema.filter build new arrays: the caller's schema is not written
schemaAfter(sch) == sch

\* allowedTables.map builds a new array: the caller's allowlist is not written
allowlistAfter(allowed) == allowed

\* String.prototype.replace with a pattern of flag g sets lastIndex to 0
\* before it matches and leaves it at 0 when no further match is found
lastIndexAfter(indexes) == [k \in DOMAIN indexes |-> 0]

\* no request has arrived
NoRequest == [pending |-> TRUE]

\* no response has been sent
NoResponse == [pending |-> TRUE]

\* no edge function is serving a request
Idle == request = NoRequest /\ response = NoResponse /\ issued = <<>>

\* the AI command console is as it is mounted
Mounted == ai = initialAI /\ task = NoTask /\ created = 0

\* the arguments are built, nothing has been called
Start ==
  /\ Idle
  /\ Mounted
  /\ schema \in Schemas
  /\ role \in Roles
  /\ allowedTables \in Allowlists
  /\ result = NoResult
  /\ report = NoReport
  /\ previous = NoResult
  /\ given = <<schema, allowedTables>>
  /\ calls = 0
  /\ lastIndex = <<0, 0, 0>>

Init == sql \in Statements /\ Start

\* a call validateSQL(sql, schema, role, allowedTables) and the state it leaves
Call ==
  /\ calls < MaxCalls
  /\ result' = validateSQL(sql, schema, role, allowedTables)
  /\ previous' = result
  /\ schema' = schemaAfter(schema)
  /\ allowedTables' = allowlistAfter(allowedTables)
  /\ lastIndex' = lastIndexAfter(lastIndex)
  /\ calls' = calls + 1
  /\ UNCHANGED <<sql, role, report, given, served, console>>

\* the caller's one call of validateSQL
Validate == result = NoResult /\ report = NoReport /\ Call

\* the caller's one call analyzeOperation(sql, schema)
Analyze ==
  /\ result = NoResult /\ report = NoReport
  /\ report' = analyzeOperation(sql, schema)
  /\ lastIndex' = lastIndexAfter(lastIndex)
  /\ UNCHANGED <<sql, schema, role, allowedTables, result, previous, given, calls, served, console>>

Next == Validate \/ Analyze

Spec == Init /\ [][Next]_vars

(***************************************************************************)
(* Repeated calls: the caller calls validateSQL again with the arguments   *)
(* it holds, and other calls run between two of its calls.                 *)
(***************************************************************************)
\* statements with comments, which the patterns of COMMENT_PATTERNS match
Commented ==
  { <<"/","*"," ","a"," ","*","/"," ","S","E","L","E","C","T"," ","1"," ","#"," ","b">>,
    <<"D","E","L","E","T","E"," ","F","R","O","M"," ","d","e","m","o","_","u","s","e","r","s"," ","-","-"," ","a","l","l">> }

\* a call analyzeOperation(other, schema) with another statement, between two
\* calls of validateSQL
Between ==
  /\ calls < MaxCalls
  /\ \E other \in Commented : report' = analyzeOperation(other, schema)
  /\ schema' = schemaAfter(schema)
  /\ lastIndex' = lastIndexAfter(lastIndex)
  /\ calls' = calls + 1
  /\ UNCHANGED <<sql, role, allowedTables, result, previous, given, served, console>>

InitCalls == sql \in Singles \cup Commented /\ Start

NextCalls == Call \/ Between

Calls == InitCalls /\ [][NextCalls]_vars

(***************************************************************************)
(* The edge functions.  A JSON value is a record with one field, named     *)
(* after its JavaScript type; an optional field of a request body is       *)
(* Undefined or Some(value).                                               *)
(***************************************************************************)
Str(s) == [string |-> s]

Num(n) == [number |-> n]

Bool(b) == [boolean |-> b]

JsNull == [null |-> TRUE]

JsUndefined == [undefined |-> TRUE]

\* an array or an object
JsObject == [object |-> TRUE]

\* typeof, with null and undefined told apart
typeOf(v) == CHOOSE t \in DOMAIN v : TRUE

\* ToBoolean: what !v and v || w test
truthy(v) ==
  CASE typeOf(v) = "string" -> Len(v.string) > 0
    [] typeOf(v) = "number" -> v.number # 0
    [] typeOf(v) = "boolean" -> v.boolean
    [] typeOf(v) = "object" -> TRUE
    [] OTHER -> FALSE

\* opt || fallback, for an optional field whose values are truthy
orElse(opt, fallback) == IF opt = Undefined THEN fallback ELSE opt[1]

\* an optional flag is set: what `flag` tests in a condition
isSet(opt) == opt # Undefined /\ opt[1]

\* a call that ended with an exception of the class e
Threw(e) == [threw |-> e]

\* v.trim() where v is no string: undefined is not a function
TypeError == "TypeError"

\* validateSQL(value, sch, r, allowed) whatever value is: Step 1 reads
\* !sql and then calls sql.trim()
validateSQLOfValue(value, sch, r, allowed) ==
  IF ~truthy(value) THEN reject(MsgEmpty)
  ELSE IF typeOf(value) # "string" THEN Threw(TypeError)
  ELSE validateSQL(value.string, sch, r, allowed)

\* jsonResponse(data, status)
jsonResponse(data, status) == [status |-> status, json |-> data]

\* errorResponse(message, status)
errorResponse(message, status) == [status |-> status, json |-> [error |-> message]]

\* a risk level as characters
SpellRisk ==
  [safe |-> <<"s","a","f","e">>, moderate |-> <<"m","o","d","e","r","a","t","e">>, high |-> <<"h","i","g","h">>, critical |-> <<"c","r","i","t","i","c","a","l">>]

\* the template of getBlockedExplanation for a valid result that requires
\* confirmation: <<text, risk level in upper case, warnings>>
getBlockedExplanation(res) ==
  IF res.is_valid
  THEN IF res.operation_analysis.requires_confirmation
       THEN << <<"Q","u","e","r","y"," ","i","s"," ","v","a","l","i","d"," ","b","u","t"," ","r","e","q","u","i","r","e","s"," ","c","o","n","f","i","r","m","a","t","i","o","n","."," ","R","i","s","k"," ","l","e","v","e","l",":"," ">>,
               toUpperCase(SpellRisk[res.operation_analysis.risk_level]),
               res.operation_analysis.warnings >>
       ELSE <<"Q","u","e","r","y"," ","i","s"," ","v","a","l","i","d"," ","a","n","d"," ","s","a","f","e"," ","t","o"," ","e","x","e","c","u","t","e",".">>
  ELSE res.reason

checksPerformed ==
  <<"empty_query_check", "multiple_statements_check", "select_only_check",
    "dangerous_keywords_check", "table_existence_check", "column_existence_check",
    "role_access_check", "limit_enforcement">>

\* the default of allowed_tables in the validate-query function
DefaultAllowedTables == << <<"d","e","m","o","_","u","s","e","r","s">>, <<"d","e","m","o","_","p","r","o","d","u","c","t","s">> >>

\* the ValidateQueryResponse built from a ValidationResult: JSON leaves out
\* the keys whose value is undefined
validateQueryResponse(res) ==
  IF res.is_valid
  THEN [is_valid |-> TRUE,
        sanitized_sql |-> res.sanitized_sql,
        explanation |-> getBlockedExplanation(res),
        checks_performed |-> checksPerformed]
  ELSE [is_valid |-> FALSE,
        explanation |-> getBlockedExplanation(res),
        blocked_reason |-> res.reason,
        checks_performed |-> checksPerformed]

\* the answer of the validate-query function when body.sql is empty
emptyQueryResponse ==
  jsonResponse([is_valid |-> FALSE,
                explanation |-> <<"N","o"," ","S","Q","L"," ","q","u","e","r","y"," ","p","r","o","v","i","d","e","d",".">>,
                blocked_reason |-> MsgEmpty,
                checks_performed |-> <<"empty_check">>], 200)

\* the validate-query function for a POST request with the JSON body b
validateQuery(b) ==
  IF ~truthy(b.sql) THEN emptyQueryResponse
  ELSE IF typeOf(b.sql) # "string"
       THEN errorResponse(<<"F","a","i","l","e","d"," ","t","o"," ","v","a","l","i","d","a","t","e"," ","q","u","e","r","y",":"," ","b","o","d","y",".","s","q","l",".","t","r","i","m"," ","i","s"," ","n","o","t"," ","a"," ","f","u","n","c","t","i","o","n">>, 500)
  ELSE IF Len(trim(b.sql.string)) = 0 THEN emptyQueryResponse
  ELSE jsonResponse(
         validateQueryResponse(
           validateSQL(b.sql.string, orElse(b.schema, DemoSchema), orElse(b.role, "user"),
                       Some(orElse(b.allowed_tables, DefaultAllowedTables)))), 200)

(***************************************************************************)

(* The execute-query function: its constants and its parsers.              *)
(***************************************************************************)
MAX_ROWS == 1000

\* DEFAULT_SCHEMA (column names only)
DEFAULT_SCHEMA ==
  << [table_name |-> <<"d","e","m","o","_","u","s","e","r","s">>,
      columns |-> << <<"i","d">>, <<"e","m","a","i","l">>, <<"n","a","m","e">>, <<"s","t","a","t","u","s">>, <<"c","r","e","a","t","e","d","_","a","t">> >>],
     [table_name |-> <<"d","e","m","o","_","o","r","d","e","r","s">>,
      columns |-> << <<"i","d">>, <<"u","s","e","r","_","i","d">>, <<"t","o","t","a","l","_","a","m","o","u","n","t">>, <<"s","t","a","t","u","s">>, <<"c","r","e","a","t","e","d","_","a","t">> >>],
     [table_name |-> <<"d","e","m","o","_","p","r","o","d","u","c","t","s">>,
      columns |-> << <<"i","d">>, <<"n","a","m","e">>, <<"p","r","i","c","e">>, <<"c","a","t","e","g","o","r","y">>, <<"i","n","_","s","t","o","c","k">>, <<"c","r","e","a","t","e","d","_","a","t">> >>] >>

\* /<words joined by \s+>\s+([a-zA-Z_][a-zA-Z0-9_]*)/i matches at position j:
\* the position of the identifier, or 0 (no \b before the first word)
looseIdentAfterAt(u, words, j) == identAt(u, afterWords(u, j, words))

\* sql.match of that expression: the identifier of the first match, lower-cased, or Undefined
firstIdentAfter(s, u, words) ==
  LET j == Least({k \in 1..Len(u) : looseIdentAfterAt(u, words, k) > 0})
      p == looseIdentAfterAt(u, words, j)
  IN IF j = 0 THEN Undefined ELSE Some(toLowerCase(Slice(s, p, SkipClass(s, WordChars, p))))

\* the chain of matches of extractPrimaryTable (u is sql in upper case)
primaryTableIn(s, u) ==
  IF firstIdentAfter(s, u, <<KwInsert, KwInto>>) # Undefined
    THEN firstIdentAfter(s, u, <<KwInsert, KwInto>>)
  ELSE IF firstIdentAfter(s, u, <<KwUpdate>>) # Undefined
    THEN firstIdentAfter(s, u, <<KwUpdate>>)
  ELSE IF firstIdentAfter(s, u, <<KwDelete, KwFrom>>) # Undefined
    THEN firstIdentAfter(s, u, <<KwDelete, KwFrom>>)
  ELSE firstIdentAfter(s, u, <<KwFrom>>)

\* Some(table) or Undefined (null)
extractPrimaryTable(text) == primaryTableIn(text, toUpperCase(text))

\* /LIMIT\s+(\d+)/i matches u at position i (no \b before LIMIT)
looseLimitAt(u, i) == digitsAt(u, i, afterWords(u, i, <<KwLimit>>))

\* body.sql.match(/LIMIT\s+(\d+)/i): the first match, or <<0, 0, 0>>
looseLimitMatch(u) == looseLimitAt(u, Least({j \in 1..Len(u) : looseLimitAt(u, j)[1] > 0}))

\* the rows the SELECT case keeps of n rows: result.rows.slice(0, limit)
\* when the text has a LIMIT, all of them when it has none
rowsKept(text, n) ==
  LET m == looseLimitMatch(toUpperCase(text))
      limit == IF parseInt(Slice(text, m[2], m[3])) < MAX_ROWS
               THEN parseInt(Slice(text, m[2], m[3])) ELSE MAX_ROWS
  IN IF m[1] = 0 THEN n ELSE IF n < limit THEN n ELSE limit

(***************************************************************************)

(* parseInsertValues, parseUpdateQuery and the WHERE match of DELETE.      *)
(***************************************************************************)
\* v starts and ends with the quote q
quotedBy(v, q) == Len(v) > 0 /\ v[1] = q /\ v[Len(v)] = q

quoted(v) == quotedBy(v, "'") \/ quotedBy(v, "\"")

\* v.slice(1, -1)
unquoted(v) == Slice(v, 2, Len(v))

\* !isNaN(Number(v)) for the trimmed text v: the empty text, and a decimal
\* literal with an optional sign and an optional fraction (exponents, hex
\* literals and Infinity are not written by the statements here)
isNumeral(v) ==
  LET a == IF Len(v) > 0 /\ v[1] \in {"+", "-"} THEN 2 ELSE 1
      b == SkipClass(v, Digits, a)
      c == IF b <= Len(v) /\ v[b] = "." THEN SkipClass(v, Digits, b + 1) ELSE b
  IN v = <<>> \/ (c > Len(v) /\ (b > a \/ c > b + 1))

\* Number(v), kept as the numeral that was written
Numeral(v) == [numeral |-> v]

\* the value a trimmed text stands for in a VALUES tuple or a SET pair
parseValue(v) ==
  IF quoted(v) THEN Str(unquoted(v))
  ELSE IF isNumeral(v) THEN Numeral(v)
  ELSE IF toUpperCase(v) = <<"T","R","U","E">> THEN Bool(TRUE)
  ELSE IF toUpperCase(v) = <<"F","A","L","S","E">> THEN Bool(FALSE)
  ELSE IF toUpperCase(v) = <<"N","U","L","L">> THEN JsNull
  ELSE Str(v)

\* parts.map(c => c.trim())
trimmedEach(parts) == SubSeq([k \in 1..Len(parts) |-> trim(parts[k])], 1, Len(parts))

\* text.split(sep).map(c => c.trim())
trimmedParts(text, sep) == trimmedEach(split(text, sep))

\* the values the trimmed texts stand for
parsedEach(parts) == SubSeq([k \in 1..Len(parts) |-> parseValue(parts[k])], 1, Len(parts))

\* /\(([^)]+)\)/ matches t at position k: the position of the ")", or 0
tupleAt(t, k) ==
  LET e == FindClass(t, {")"}, k + 1)
  IN IF k >= 1 /\ k <= Len(t) /\ t[k] = "(" /\ e <= Len(t) /\ e > k + 1 THEN e ELSE 0

\* valuesSection.matchAll(/\(([^)]+)\)/g) from position i on: the rows of parsed values
RECURSIVE valueRows(_, _)
valueRows(t, i) ==
  LET k == Least({j \in i..Len(t) : tupleAt(t, j) > 0})
  IN IF k = 0 THEN <<>>
     ELSE <<parsedEach(trimmedParts(Slice(t, k + 1, tupleAt(t, k)), ","))>>
          \o valueRows(t, tupleAt(t, k) + 1)

\* /INSERT\s+INTO\s+\w+\s*\(([^)]+)\)\s*VALUES\s*(.+)$/is matches u at position j:
\* <<start of group 1, end of group 1, start of group 2>>, or <<0, 0, 0>>.
\* When nothing but white space follows VALUES, \s* gives its last character to group 2.
insertShapeAt(u, j) ==
  LET p1 == afterWords(u, j, <<KwInsert, KwInto>>)
      p2 == SkipClass(u, WordChars, p1)
      p3 == SkipClass(u, WhiteSpace, p2)
      p4 == FindClass(u, {")"}, p3 + 1)
      p5 == SkipClass(u, WhiteSpace, p4 + 1)
      p6 == p5 + Len(KwValues)
      p7 == SkipClass(u, WhiteSpace, p6)
  IN IF /\ p1 > 0 /\ p2 > p1
        /\ p3 <= Len(u) /\ u[p3] = "("
        /\ p4 <= Len(u) /\ p4 > p3 + 1
        /\ MatchAt(u, p5, KwValues)
        /\ (p7 <= Len(u) \/ p7 > p6)
     THEN <<p3 + 1, p4, IF p7 <= Len(u) THEN p7 ELSE Len(u)>>
     ELSE <<0, 0, 0>>

\* the first match of that expression in u
insertShape(u) == insertShapeAt(u, Least({j \in 1..Len(u) : insertShapeAt(u, j)[1] > 0}))

\* the branch on the match m: Undefined (null) or Some of columns and values
insertParsed(text, m) ==
  IF m[1] = 0 THEN Undefined
  ELSE Some([columns |-> trimmedParts(Slice(text, m[1], m[2]), ","),
             values |-> valueRows(Slice(text, m[3], Len(text) + 1), 1)])

parseInsertValues(text) == insertParsed(text, insertShape(toUpperCase(text)))

\* the object the INSERT case builds of a row: obj[col] = row[idx], the last
\* assignment of a column standing
rowObject(columns, row) ==
  [c \in Range(columns) |->
     LET k == Greatest({i \in 1..Len(columns) : columns[i] = c})
     IN IF k <= Len(row) THEN row[k] ELSE JsUndefined]

\* \s+WHERE\s+ matches u at position e
whereBreakAt(u, e) ==
  /\ e <= Len(u) /\ u[e] \in WhiteSpace
  /\ afterWords(u, SkipClass(u, WhiteSpace, e), <<KwWhere>>) > 0

\* /SET\s+([\s\S]+?)(?:\s+WHERE\s+|$)/i matches u at position i: <<start, end>>
\* of the group, or <<0, 0>>.  A group that would start past the end gives the
\* blank before it (\s+ gives one back).
setShapeAt(u, i) ==
  LET a == i + Len(KwSet)
      w == SkipClass(u, WhiteSpace, a)
      e == Least({k \in (w + 1)..Len(u) : whereBreakAt(u, k)})
  IN IF MatchAt(u, i, KwSet) /\ a <= Len(u) /\ u[a] \in WhiteSpace
     THEN IF w <= Len(u) THEN <<w, IF e = 0 THEN Len(u) + 1 ELSE e>>
          ELSE IF w - a >= 2 THEN <<w - 1, w>>
          ELSE <<0, 0>>
     ELSE <<0, 0>>

setShape(u) == setShapeAt(u, Least({j \in 1..Len(u) : setShapeAt(u, j)[1] > 0}))

\* pair.split('=').map(s => s.trim()) gives col and val: the pair counts
\* when col is not empty and val is there
countedPair(pair) == Len(trimmedParts(pair, "=")) >= 2 /\ Len(trimmedParts(pair, "=")[1]) > 0

\* the updates object of the pairs: updates[col] = parsedVal, the last
\* assignment of a column standing
updatesOf(pairs) ==
  LET counted == {i \in 1..Len(pairs) : countedPair(pairs[i])}
  IN [c \in {trimmedParts(pairs[i], "=")[1] : i \in counted} |->
        parseValue(trimmedParts(
          pairs[Greatest({i \in counted : trimmedParts(pairs[i], "=")[1] = c})], "=")[2])]

\* the text from position q of s on matches \s*;?\s*$
trailerAt(s, q) ==
  LET k == SkipClass(s, WhiteSpace, q)
  IN k > Len(s) \/ (s[k] = ";" /\ SkipClass(s, WhiteSpace, k + 1) > Len(s))

\* (.+?)(?:\s*;?\s*$) matches s from position a on: <<start, end>> of the
\* group, or <<0, 0>>
valueGroupFrom(s, a) ==
  LET q == Least({k \in (a + 1)..(Len(s) + 1) : trailerAt(s, k)})
  IN IF a <= Len(s) /\ \A k \in a..(q - 1) : s[k] \notin LineTerminators
     THEN <<a, q>> ELSE <<0, 0>>

\* /WHERE\s+([a-zA-Z_][a-zA-Z0-9_]*)\s*=\s*(.+?)(?:\s*;?\s*$)/i matches s (u in
\* upper case) at position j: <<start of group 1, end of group 1, start of
\* group 2, end of group 2>>, or <<0, 0, 0, 0>>.  When nothing but white space
\* follows the "=", \s* gives group 2 the last of it that "." matches.
whereShapeAt(s, u, j) ==
  LET p1 == identAt(u, afterWords(u, j, <<KwWhere>>))
      p2 == SkipClass(u, WordChars, p1)
      p3 == SkipClass(u, WhiteSpace, p2)
      p4 == SkipClass(u, WhiteSpace, p3 + 1)
      b == Greatest({k \in (p3 + 1)..Len(s) : s[k] \notin LineTerminators})
      g == IF p4 <= Len(s) THEN valueGroupFrom(s, p4)
           ELSE IF b > 0 THEN <<b, b + 1>> ELSE <<0, 0>>
  IN IF p1 > 0 /\ p3 <= Len(u) /\ u[p3] = "=" /\ g[1] > 0
     THEN <<p1, p2, g[1], g[2]>>
     ELSE <<0, 0, 0, 0>>

whereShape(s, u) ==
  whereShapeAt(s, u, Least({j \in 1..Len(u) : whereShapeAt(s, u, j)[1] > 0}))

\* whereValue: match[2].trim(), without its quotes when it is quoted
whereValueOf(v) == IF quoted(v) THEN unquoted(v) ELSE v

\* the branch on whereMatch m: Undefined, or Some of the column and the value
whereParsed(s, m) ==
  IF m[1] = 0 THEN Undefined
  ELSE Some([column |-> Slice(s, m[1], m[2]),
             value |-> whereValueOf(trim(Slice(s, m[3], m[4])))])

\* body.sql.match(/WHERE.../i) of the DELETE case and of parseUpdateQuery
whereMatch(text) == whereParsed(text, whereShape(text, toUpperCase(text)))

\* the branch on setMatch g: Undefined (null), or Some of the updates and the WHERE match
updateParsed(text, g) ==
  IF g[1] = 0 THEN Undefined
  ELSE Some([updates |-> updatesOf(split(Slice(text, g[1], g[2]), ",")),
             where |-> whereMatch(text)])

parseUpdateQuery(text) == updateParsed(text, setShape(toUpperCase(text)))

(***************************************************************************)

(* The execute-query function.  The database answers an operation with an *)
(* error or with rows; of the rows the model keeps their number and their  *)
(* table.  execution_time_ms, a reading of the clock, is left out.         *)
(***************************************************************************)
\* { data: null, error } of the Supabase client
dbError == [error |-> Some(<<"d","a","t","a","b","a","s","e"," ","e","r","r","o","r">>), data |-> Undefined]

\* { data, error: null } with n rows
dbRows(n) == [error |-> Undefined, data |-> Some(n)]

\* data.length, 0 when data is null
lengthOf(answer) == IF answer.data = Undefined THEN 0 ELSE answer.data[1]

\* n rows of a table
rowsOf(table, n) == [table |-> table, count |-> n]

\* Object.keys(data[0]) of rows of a table
keysOf(table) == [keys_of_table |-> table]

\* what the handler returns with the operations it has issued
answered(resp, ops) == [response |-> resp, issued |-> ops]

\* the catch clause: the answer for the Error with the message msg
failure(msg, ops) ==
  answered(jsonResponse([success |-> FALSE, operation_type |-> "UNKNOWN", columns |-> <<>>,
                        rows |-> <<>>, row_count |-> 0, error |-> msg], 500), ops)

\* the response built after the switch
success(opType, analysed, columns, rows, affected, ops) ==
  answered(jsonResponse([success |-> TRUE, operation_type |-> opType, columns |-> columns,
                        rows |-> rows, row_count |-> rows.count,
                        affected_rows |-> affected, operation_analysis |-> analysed], 200), ops)

\* a select, insert, update or delete of the Supabase client
selectAll(table, limit) == [op |-> "select", table |-> table, limit |-> limit]

selectEq(table, w) == [op |-> "select", table |-> table, column |-> w.column, value |-> w.value]

insertRows(table, rows) == [op |-> "insert", table |-> table, rows |-> rows]

updateEq(table, updates, w) ==
  [op |-> "update", table |-> table, updates |-> updates, column |-> w.column, value |-> w.value]

deleteEq(table, w) == [op |-> "delete", table |-> table, column |-> w.column, value |-> w.value]

\* case 'SELECT'
executeSelect(text, analysed, table, answer) ==
  IF answer.error # Undefined THEN failure(answer.error[1], <<selectAll(table, MAX_ROWS)>>)
  ELSE success("SELECT", analysed,
               IF lengthOf(answer) > 0 THEN keysOf(table) ELSE <<>>,
               rowsOf(table, rowsKept(text, lengthOf(answer))),
               Undefined, <<selectAll(table, MAX_ROWS)>>)

\* the rows of a write the database returned, and the answer built of them
written(opType, analysed, table, answer, ops) ==
  IF answer.error # Undefined THEN failure(answer.error[1], ops)
  ELSE success(opType, analysed,
               IF lengthOf(answer) > 0 THEN keysOf(table) ELSE <<>>,
               rowsOf(table, lengthOf(answer)), Some(lengthOf(answer)), ops)

\* insertData: an object for each row of values
insertDataOf(parsed) ==
  SubSeq([k \in 1..Len(parsed.values) |-> rowObject(parsed.columns, parsed.values[k])],
         1, Len(parsed.values))

\* case 'INSERT', parsed being what parseInsertValues returned
executeInsert(analysed, table, parsed, answer) ==
  IF parsed = Undefined THEN failure(<<"C","o","u","l","d"," ","n","o","t"," ","p","a","r","s","e"," ","I","N","S","E","R","T"," ","s","t","a","t","e","m","e","n","t">>, <<>>)
  ELSE written("INSERT", analysed, table, answer, <<insertRows(table, insertDataOf(parsed[1]))>>)

\* case 'UPDATE', parsed being what parseUpdateQuery returned
executeUpdate(analysed, table, parsed, answer) ==
  IF parsed = Undefined THEN failure(<<"C","o","u","l","d"," ","n","o","t"," ","p","a","r","s","e"," ","U","P","D","A","T","E"," ","s","t","a","t","e","m","e","n","t">>, <<>>)
  ELSE IF parsed[1].where = Undefined
       THEN failure(<<"U","P","D","A","T","E"," ","w","i","t","h","o","u","t"," ","W","H","E","R","E"," ","c","l","a","u","s","e"," ","i","s"," ","b","l","o","c","k","e","d"," ","f","o","r"," ","s","a","f","e","t","y","."," ","P","l","e","a","s","e"," ","s","p","e","c","i","f","y"," ","w","h","i","c","h"," ","r","o","w","s"," ","t","o"," ","u","p","d","a","t","e",".">>, <<>>)
  ELSE written("UPDATE", analysed, table, answer,
               <<updateEq(table, parsed[1].updates, parsed[1].where[1])>>)

\* case 'DELETE', w being the WHERE match: the rows are read, then deleted
executeDelete(analysed, table, w, found, answer) ==
  IF w = Undefined
  THEN failure(<<"D","E","L","E","T","E"," ","w","i","t","h","o","u","t"," ","W","H","E","R","E"," ","c","l","a","u","s","e"," ","i","s"," ","b","l","o","c","k","e","d"," ","f","o","r"," ","s","a","f","e","t","y","."," ","P","l","e","a","s","e"," ","s","p","e","c","i","f","y"," ","w","h","i","c","h"," ","r","o","w","s"," ","t","o"," ","d","e","l","e","t","e",".">>, <<>>)
  ELSE IF answer.error # Undefined
       THEN failure(answer.error[1], <<selectEq(table, w[1]), deleteEq(table, w[1])>>)
  ELSE success("DELETE", analysed,
               IF lengthOf(found) > 0 THEN keysOf(table) ELSE << <<"d","e","l","e","t","e","d">> >>,
               rowsOf(table, lengthOf(found)), Some(lengthOf(found)),
               <<selectEq(table, w[1]), deleteEq(table, w[1])>>)

\* the switch on opType; answers are the answers of the database to the
\* first and to the second operation
executeOperation(text, opType, analysed, tableName, answers) ==
  IF opType \notin {"SELECT", "INSERT", "UPDATE", "DELETE"}
  THEN failure(<<"U","n","s","u","p","p","o","r","t","e","d"," ","o","p","e","r","a","t","i","o","n"," ","t","y","p","e",":"," ">> \o Spell[opType], <<>>)
  ELSE IF tableName = Undefined THEN failure(<<"C","o","u","l","d"," ","n","o","t"," ","d","e","t","e","r","m","i","n","e"," ","t","a","b","l","e"," ","f","r","o","m"," ","q","u","e","r","y">>, <<>>)
  ELSE CASE opType = "SELECT" -> executeSelect(text, analysed, tableName[1], answers[1])
         [] opType = "INSERT" ->
              executeInsert(analysed, tableName[1], parseInsertValues(text), answers[1])
         [] opType = "UPDATE" ->
              executeUpdate(analysed, tableName[1], parseUpdateQuery(text), answers[1])
         [] opType = "DELETE" ->
              executeDelete(analysed, tableName[1], whereMatch(text), answers[1], answers[2])

\* the answer that asks for confirmation
confirmationResponse(opType, analysed) ==
  jsonResponse([success |-> FALSE, operation_type |-> opType, columns |-> <<>>, rows |-> <<>>,
                row_count |-> 0, requires_confirmation |-> TRUE,
                operation_analysis |-> analysed,
                warning |-> <<"T","h","i","s"," ">> \o Spell[opType]
                            \o <<" ","o","p","e","r","a","t","i","o","n"," ","r","e","q","u","i","r","e","s"," ","e","x","p","l","i","c","i","t"," ","c","o","n","f","i","r","m","a","t","i","o","n","."," ","R","i","s","k"," ","l","e","v","e","l",":"," ">>
                            \o toUpperCase(SpellRisk[analysed.risk_level])], 200)

\* a handler that executes whatever the analysis says
executeAnalysedUnasked(b, text, opType, analysed, answers) ==
  executeOperation(text, opType, analysed, extractPrimaryTable(text), answers)


\* the handler from the analysed on
executeAnalysed(b, text, opType, analysed, answers) ==
  IF analysed.requires_confirmation /\ ~isSet(b.confirmed)
  THEN answered(confirmationResponse(opType, analysed), <<>>)
  ELSE executeOperation(text, opType, analysed, extractPrimaryTable(text), answers)

\* the handler from the validation on, validation being Undefined when it
\* is skipped and Some of what validateSQL(body.sql, schema, role) returned
executeChecked(b, text, sch, validation, answers) ==
  IF validation # Undefined /\ ~validation[1].is_valid
  THEN answered(errorResponse(<<"Q","u","e","r","y"," ","f","a","i","l","e","d"," ","v","a","l","i","d","a","t","i","o","n",":"," ">> \o validation[1].reason, 400), <<>>)
  ELSE executeAnalysed(b, text, detectOperationType(text), analyzeOperation(text, sch), answers)

\* the execute-query function for a POST request with the JSON body b
executeQuery(b, answers) ==
  IF ~truthy(b.sql) THEN answered(errorResponse(<<"s","q","l"," ","i","s"," ","r","e","q","u","i","r","e","d">>, 400), <<>>)
  ELSE IF typeOf(b.sql) # "string" THEN failure(<<"b","o","d","y",".","s","q","l",".","t","r","i","m"," ","i","s"," ","n","o","t"," ","a"," ","f","u","n","c","t","i","o","n">>, <<>>)
  ELSE IF Len(trim(b.sql.string)) = 0 THEN answered(errorResponse(<<"s","q","l"," ","i","s"," ","r","e","q","u","i","r","e","d">>, 400), <<>>)
  ELSE executeChecked(b, b.sql.string, orElse(b.schema, DEFAULT_SCHEMA),
                      IF isSet(b.skip_revalidation) THEN Undefined
                      ELSE Some(validateSQL(b.sql.string, orElse(b.schema, DEFAULT_SCHEMA),
                                            orElse(b.role, "user"), Undefined)),
                      answers)

(***************************************************************************)

(* Requests: a client posts a JSON body to the validate-query or to the    *)
(* execute-query function, or the body's sql is handed to validateSQL.     *)
(***************************************************************************)
\* statements a client may post
Posted ==
  { <<"S","E","L","E","C","T"," ","*"," ","F","R","O","M"," ","d","e","m","o","_","u","s","e","r","s">>,
    <<"S","E","L","E","C","T"," ","*"," ","F","R","O","M"," ","d","e","m","o","_","u","s","e","r","s"," ","L","I","M","I","T"," ","5","0","0","0">>,
    <<"s","e","l","e","c","t"," ","*"," ","f","r","o","m"," ","d","e","m","o","_","u","s","e","r","s"," ","l","i","m","i","t"," ","5">>,
    <<"S","E","L","E","C","T"," ","*"," ","F","R","O","M"," ","d","e","m","o","_","o","r","d","e","r","s">>,
    <<"S","E","L","E","C","T"," ","*"," ","F","R","O","M"," ","g","h","o","s","t","_","t","a","b","l","e">>,
    <<"I","N","S","E","R","T"," ","I","N","T","O"," ","d","e","m","o","_","u","s","e","r","s"," ","(","i","d",","," ","n","a","m","e",")"," ","V","A","L","U","E","S"," ","(","1",","," ","'","a","'",")",","," ","(","2",","," ","'","b","'",")">>,
    <<"I","N","S","E","R","T"," ","I","N","T","O"," ","d","e","m","o","_","u","s","e","r","s"," ","(","i","d",")"," ","S","E","L","E","C","T"," ","i","d"," ","F","R","O","M"," ","d","e","m","o","_","o","r","d","e","r","s">>,
    <<"U","P","D","A","T","E"," ","d","e","m","o","_","o","r","d","e","r","s"," ","S","E","T"," ","s","t","a","t","u","s"," ","="," ","'","x","'"," ","W","H","E","R","E"," ","i","d"," ","="," ","1">>,
    <<"D","E","L","E","T","E"," ","F","R","O","M"," ","d","e","m","o","_","u","s","e","r","s"," ","W","H","E","R","E"," ","i","d"," ","="," ","'","1","'",";">>,
    <<"D","E","L","E","T","E"," ","F","R","O","M"," ","d","e","m","o","_","u","s","e","r","s">>,
    <<"D","R","O","P"," ","T","A","B","L","E"," ","d","e","m","o","_","u","s","e","r","s">>,
    <<" "," ">> }

\* what the key sql of a body may hold: nothing, a value that is no string, a statement
SqlValues ==
  {JsUndefined, JsNull, Num(0), Num(42), Bool(TRUE), JsObject} \cup {Str(s) : s \in Posted}

\* the bodies of the requests to the validate-query function
ValidateBodies ==
  [sql : SqlValues,
   role : {Undefined, Some("creator"), Some("user")},
   schema : {Undefined, Some(BareSchema)},
   allowed_tables : {Undefined, Some(<< <<"d","e","m","o","_","o","r","d","e","r","s">> >>)}]

\* the bodies of the requests to the execute-query function
ExecuteBodies ==
  [sql : SqlValues,
   role : {Undefined, Some("creator"), Some("user")},
   schema : {Undefined, Some(BareSchema)},
   confirmed : {Undefined, Some(FALSE), Some(TRUE)},
   skip_revalidation : {Undefined, Some(TRUE)}]

\* a table with more rows than DEFAULT_LIMIT
ManyRows == 150

\* what the database may answer to an operation
DbAnswers == {dbError, dbRows(0), dbRows(ManyRows), dbRows(MAX_ROWS)}

\* what the database may answer to the delete of the DELETE case, whose
\* data is not read
DeleteAnswers == {dbError, dbRows(0)}

InitRequests ==
  /\ request \in [to : {"validate-query"}, body : ValidateBodies]
                 \cup [to : {"execute-query"}, body : ExecuteBodies]
  /\ response = NoResponse
  /\ issued = <<>>
  /\ Mounted
  /\ sql = <<>>
  /\ schema = DemoSchema
  /\ role = "user"
  /\ allowedTables = Undefined
  /\ result = NoResult
  /\ report = NoReport
  /\ previous = NoResult
  /\ given = <<schema, allowedTables>>
  /\ calls = 0
  /\ lastIndex = <<0, 0, 0>>

\* nothing has been done with the request
Waiting == response = NoResponse /\ result = NoResult

\* the validate-query function serves the request
ValidateQuery ==
  /\ Waiting
  /\ request.to = "validate-query"
  /\ response' = validateQuery(request.body)
  /\ lastIndex' = lastIndexAfter(lastIndex)
  /\ UNCHANGED <<sql, schema, role, allowedTables, result, report, previous, given, calls,
                 request, issued, console>>

\* the handler has returned out: its response is sent, its operations were issued
Answered(out) == response' = out.response /\ issued' = out.issued

\* the execute-query function serves the request, the database answering
\* the operations it issues
ExecuteQuery ==
  /\ Waiting
  /\ request.to = "execute-query"
  /\ \E first \in DbAnswers, second \in DeleteAnswers :
       Answered(executeQuery(request.body, <<first, second>>))
  /\ lastIndex' = lastIndexAfter(lastIndex)
  /\ UNCHANGED <<sql, schema, role, allowedTables, result, report, previous, given, calls,
                 request, console>>

\* validateSQL is called with the body's sql, schema, role and allowlist
\* as they are
ValidateValue ==
  /\ Waiting
  /\ request.to = "validate-query"
  /\ result' = validateSQLOfValue(request.body.sql, orElse(request.body.schema, DemoSchema),
                                  orElse(request.body.role, "user"),
                                  request.body.allowed_tables)
  /\ lastIndex' = lastIndexAfter(lastIndex)
  /\ UNCHANGED <<sql, schema, role, allowedTables, report, previous, given, calls, served, console>>

NextRequests == ValidateQuery \/ ExecuteQuery \/ ValidateValue

Requests == InitRequests /\ [][NextRequests]_vars

(***************************************************************************)

(* The console: the user submits commands, executes or cancels the one in  *)
(* preview, clears the history and switches the mode, while the call a     *)
(* handler awaits is under way.  A handler runs from one await to the next *)
(* without interruption; what it awaits returns at any later time.         *)
(***************************************************************************)
\* the most commands one behaviour submits
MaxCommands == 3

\* the validator and the edge functions are not part of the console
Elsewhere ==
  <<sql, schema, role, allowedTables, result, report, previous, given, calls, lastIndex, served>>

InitConsole ==
  /\ Mounted
  /\ Idle
  /\ sql = <<>>
  /\ schema = DemoSchema
  /\ role = "creator"
  /\ allowedTables = Undefined
  /\ result = NoResult
  /\ report = NoReport
  /\ previous = NoResult
  /\ given = <<schema, allowedTables>>
  /\ calls = 0
  /\ lastIndex = <<0, 0, 0>>

\* the handlers have dispatched `actions`
Dispatch(actions) == ai' = dispatched(ai, actions)

\* toggleMode of AIContextIndicator
ToggleMode ==
  /\ ai' = appReducer(ai, [type |-> "SET_AI_MODE",
                           payload |-> IF ai.mode = "AI" THEN "SQL" ELSE "AI"])
  /\ UNCHANGED <<task, created, Elsewhere>>

\* handleSubmit with a command typed, up to its first await
HandleSubmit ==
  /\ ~ai.isProcessing
  /\ created < MaxCommands
  /\ Dispatch(submitStarted(createAICommand(created + 1)))
  /\ task' = Awaiting("handleSubmit",
                      IF ai.mode = "AI" THEN "generateQuery" ELSE "validateQuery",
                      createAICommand(created + 1))
  /\ created' = created + 1
  /\ UNCHANGED Elsewhere

\* generateQuery returns to handleSubmit
Generated ==
  /\ task # NoTask /\ task[1].awaits = "generateQuery"
  /\ \E outcome \in {"sql", "failed", "threw"} :
       /\ Dispatch(submitGenerated(task[1].entry, outcome))
       /\ task' = IF outcome = "sql"
                  THEN Awaiting("handleSubmit", "validateQuery", task[1].entry)
                  ELSE NoTask
  /\ UNCHANGED <<created, Elsewhere>>

\* validateQuery returns to handleSubmit
Validated ==
  /\ task # NoTask /\ task[1].awaits = "validateQuery"
  /\ \E outcome \in {"valid", "invalid", "threw"} :
       Dispatch(submitValidated(task[1].entry, outcome))
  /\ task' = NoTask
  /\ UNCHANGED <<created, Elsewhere>>

\* handleExecute, from the button of AISQLPreview or the Enter key, up to its await
HandleExecute ==
  /\ previewEnabled(ai)
  /\ ai.activeCommand[1].sql
  /\ Dispatch(<<setAIProcessing(TRUE)>>)
  /\ task' = Awaiting("handleExecute", "executeQuery", ai.activeCommand[1])
  /\ UNCHANGED <<created, Elsewhere>>

\* executeQuery returns to handleExecute
Executed ==
  /\ task # NoTask /\ task[1].awaits = "executeQuery"
  /\ \E outcome \in {"success", "failed", "threw"} :
       Dispatch(executeReturned(task[1].entry, outcome))
  /\ task' = NoTask
  /\ UNCHANGED <<created, Elsewhere>>

\* handleCancel, from the button of AISQLPreview
HandleCancel ==
  /\ previewEnabled(ai)
  /\ Dispatch(handleCancel(ai.activeCommand))
  /\ UNCHANGED <<task, created, Elsewhere>>

\* handleClearHistory, from the Clear button, which is rendered while the
\* history is not empty
HandleClearHistory ==
  /\ Len(ai.commandHistory) > 0
  /\ Dispatch(handleClearHistory)
  /\ UNCHANGED <<task, created, Elsewhere>>

NextConsole ==
  \/ ToggleMode
  \/ HandleSubmit
  \/ Generated
  \/ Validated
  \/ HandleExecute
  \/ Executed
  \/ HandleCancel
  \/ HandleClearHistory

Console == InitConsole /\ [][NextConsole]_vars

(***************************************************************************)

(* What the properties below read off a state.                             *)
(***************************************************************************)
\* validateSQL has returned
Done == result # NoResult

\* the comment-stripped text of the statement
Cleaned == removeComments(sql)

\* the name t is, case-insensitively, one of `names`
AmongNames(t, names) == \E k \in 1..Len(names) : toLowerCase(names[k]) = t

\* the positions in `tables` of the names that are not, case-insensitively, among `names`
NotAmong(tables, names) == {i \in 1..Len(tables) : ~AmongNames(tables[i], names)}

\* the columns, lower-cased, of the tables of sch that are among `tables`
ColumnsOfTables(tables, sch) ==
  UNION {{toLowerCase(sch[k].columns[c]) : c \in 1..Len(sch[k].columns)} :
           k \in {n \in 1..Len(sch) : arrIncludes(tables, toLowerCase(sch[n].table_name))}}

\* the positions in `columns` of the columns outside the skip-list
OutsideSkipList(columns) == {i \in 1..Len(columns) : ~arrIncludes(skipList, columns[i])}

\* the positions in `columns` of the columns outside the skip-list that are not in `known`
UnknownAmong(columns, known) == {i \in OutsideSkipList(columns) : columns[i] \notin known}

\* the positions in BLOCKED_PATTERNS of the patterns that text contains, in any case
BlockedIn(text) ==
  {p \in 1..Len(BLOCKED_PATTERNS) : includes(toUpperCase(text), BLOCKED_PATTERNS[p])}

\* what is read off a statement of operation type op with these tables and columns:
\* missing and outside are positions in tables, checked and unknown positions in columns
Reading(op, tables, columns) ==
  [operation |-> op,
   tables |-> tables,
   columns |-> columns,
   blocked |-> BlockedIn(Cleaned),
   missing |-> NotAmong(tables, [k \in 1..Len(schema) |-> schema[k].table_name]),
   outside |-> IF allowedTables = Undefined THEN {} ELSE NotAmong(tables, allowedTables[1]),
   known |-> ColumnsOfTables(tables, schema),
   checked |-> OutsideSkipList(columns),
   unknown |-> UnknownAmong(columns, ColumnsOfTables(tables, schema))]

\* what is read off the statement of the state
Read == Reading(detectOperationType(sql), extractTableNames(sql), extractColumnNames(sql))

\* the eight checks in the order of the claim: does the input, read as f, fail check i
Fails(i, f) ==
  CASE i = 1 -> Len(trim(sql)) = 0
    [] i = 2 -> hasMultipleStatements(sql)
    [] i = 3 -> f.blocked # {}
    [] i = 4 -> f.operation = "DDL"
    [] i = 5 -> ~arrIncludes(allowedOpsOf(role), f.operation)
    [] i = 6 -> f.missing # {}
    [] i = 7 -> role = "user" /\ f.outside # {}
    [] i = 8 -> f.known # {} /\ f.unknown # {}

\* the reason check i gives
ReasonOf(i, f) ==
  CASE i = 1 -> MsgEmpty
    [] i = 2 -> MsgMultiple
    [] i = 3 -> MsgBlocked(BLOCKED_PATTERNS[Least(f.blocked)])
    [] i = 4 -> MsgDdl
    [] i = 5 -> MsgRole(Spell[f.operation], Spell[role],
                        [k \in 1..Len(allowedOpsOf(role)) |-> Spell[allowedOpsOf(role)[k]]])
    [] i = 6 -> MsgTable(f.tables[Least(f.missing)],
                         [k \in 1..Len(schema) |-> toLowerCase(schema[k].table_name)])
    [] i = 7 -> MsgAccess(f.tables[Least(f.outside)])
    [] i = 8 -> MsgColumn(f.columns[Least(f.unknown)],
                          columnsOf(tablesInQueryOf(schema, f.tables)))

\* the first check the input fails, or 0
EarliestFailure(f) == Least({i \in 1..8 : Fails(i, f)})

\* the input fails none of the checks before check i
PassesBefore(i, f) == \A j \in 1..(i - 1) : ~Fails(j, f)

(***************************************************************************)
(* The result and the order of the checks.                                 *)
(***************************************************************************)
\* C1: the result carries sanitized_sql and operation_analysis exactly when
\* is_valid is true, and reason exactly when is_valid is false.
ResultShape ==
  Done =>
    /\ "is_valid" \in DOMAIN result
    /\ ("sanitized_sql" \in DOMAIN result) = result.is_valid
    /\ ("operation_analysis" \in DOMAIN result) = result.is_valid
    /\ ("reason" \in DOMAIN result) = ~result.is_valid

\* a statement was accepted, with its sanitized text and its analysis
ResultShapeWitness ==
  Done /\ result.is_valid /\ DOMAIN result = {"is_valid", "sanitized_sql", "operation_analysis"}

\* C2: for every role, schema and allowlist, a statement that
\* detectOperationType maps to DDL is never returned as valid.
DdlRejected == Done /\ detectOperationType(sql) = "DDL" => ~result.is_valid

\* role creator submitted a DDL statement and the DDL check rejected it
DdlRejectedWitness ==
  Done /\ role = "creator" /\ result = reject(MsgDdl) /\ detectOperationType(sql) = "DDL"

\* the result is the one check i gives (i = 0: the input fails no check)
ResultOfCheck(i, f) == IF i = 0 THEN result.is_valid ELSE result = reject(ReasonOf(i, f))

\* the result is the one the earliest failing check gives
InOrder(f) == ResultOfCheck(EarliestFailure(f), f)

\* C4: the checks run in the order empty input, multiple statements, blocked
\* pattern, DDL, role permission, table existence, allowlist, column
\* existence; the result is the rejection of the earliest check the input
\* fails, whatever the later checks say, and is valid when it fails none.
CheckOrder == Done => InOrder(Read)

\* the input fails the checks 2, 3 and 6
FailsSeveral(f) == Fails(2, f) /\ Fails(3, f) /\ Fails(6, f)

\* an input that fails the second, the third and the sixth check was rejected by the second
CheckOrderWitness == Done /\ result = reject(MsgMultiple) /\ FailsSeveral(Read)

\* C5: a statement whose comment-stripped text contains INTO OUTFILE,
\* INTO DUMPFILE, LOAD_FILE, EXECUTE or EXEC, in any case, is rejected,
\* for every role, schema and operation kind.
BlockedRejected == Done /\ BlockedIn(Cleaned) # {} => ~result.is_valid

\* a lower-case statement with EXECUTE inside a column name was rejected for it
BlockedRejectedWitness ==
  /\ Done
  /\ result = reject(MsgBlocked(BLOCKED_PATTERNS[4]))
  /\ \A p \in 1..Len(BLOCKED_PATTERNS) : ~includes(Cleaned, BLOCKED_PATTERNS[p])

(***************************************************************************)
(* Stacked statements.                                                     *)
(***************************************************************************)
\* the position where the quote that opens at position j of s closes, or 0
quoteCloses(s, j) == Least({k \in (j + 1)..Len(s) : s[k] = s[j]})

\* statement text follows position j of s: a character that is neither white space nor ";"
textAfter(s, j) == \E k \in (j + 1)..Len(s) : s[k] \notin (WhiteSpace \cup {";"})

\* reading s from position i on, left to right, a semicolon outside the
\* literals '...' and "..." is followed by statement text
RECURSIVE stackedFrom(_, _)
stackedFrom(s, i) ==
  LET j == Least({k \in i..Len(s) : s[k] \in {";", "'", "\""}})
  IN IF j = 0 THEN FALSE
     ELSE IF s[j] = ";" THEN textAfter(s, j)
     ELSE IF quoteCloses(s, j) = 0 THEN FALSE
     ELSE stackedFrom(s, quoteCloses(s, j) + 1)

\* C3: whenever validateSQL returns valid, sanitized_sql is a single
\* statement: it has no semicolon outside quoted string literals that is
\* followed by further statement text.
SingleStatement == Done /\ result.is_valid => ~stackedFrom(result.sanitized_sql, 1)

(***************************************************************************)
(* The roles.                                                              *)
(***************************************************************************)
\* C6: with role user only SELECT statements are accepted: every INSERT,
\* UPDATE and DELETE statement submitted with role user is rejected.
UserReadOnly ==
  Done /\ role = "user" /\ detectOperationType(sql) \in {"INSERT", "UPDATE", "DELETE"}
    => ~result.is_valid

\* the other of the two declared roles
Peer(r) == IF r = "creator" THEN "user" ELSE "creator"

\* what the claim compares of a result: the flag, and of an accepted
\* statement its sanitized text and its analysis
Outcome(res) ==
  IF res.is_valid THEN <<TRUE, res.sanitized_sql, res.operation_analysis>> ELSE <<FALSE>>

NamesOneOf(f, S) == \E i \in S : includes(result.reason, f.tables[i])

\* the allowlist holds for the statement read as f, whatever the role
AllowlistHolds(f) ==
  /\ result.is_valid => f.outside = {}
  /\ f.outside # {} => ~result.is_valid /\ NamesOneOf(f, f.outside)

\* C8 as stated: for every role that has an allowlist supplied, a valid
\* result has every extracted table in the allowlist, and a statement that
\* references a table outside the allowlist is rejected naming that table.
AllowlistForEveryRole == Done /\ allowedTables # Undefined => AllowlistHolds(Read)

\* the allowlist holds for the statement read as f, submitted with role user
UserAllowlistHolds(f) ==
  /\ result.is_valid => f.outside = {}
  /\ PassesBefore(7, f) /\ f.outside # {} => result = reject(ReasonOf(7, f))

\* C8, amended: for role user with an allowlist supplied, a valid result has
\* every extracted table in the allowlist (compared case-insensitively), and
\* a statement that passes the earlier checks and references a table outside
\* the allowlist is rejected naming the first such table; for any other role
\* the result is the one the call gives without the allowlist.
UserAllowlistEnforced ==
  /\ Done /\ role = "user" /\ allowedTables # Undefined => UserAllowlistHolds(Read)
  /\ Done /\ role # "user" => result = validateSQL(sql, schema, role, Undefined)

\* role user joined demo_orders, which its allowlist leaves out, and was denied
UserAllowlistEnforcedWitness ==
  /\ Done /\ role = "user" /\ allowedTables # Undefined
  /\ result = reject(MsgAccess(<<"d","e","m","o","_","o","r","d","e","r","s">>))

(***************************************************************************)
(* Tables and columns of the schema.                                       *)
(***************************************************************************)
\* the reason lists every table name of the schema, lower-cased
ListsSchemaTables ==
  \A k \in 1..Len(schema) : includes(result.reason, toLowerCase(schema[k].table_name))

\* the tables of the statement read as f exist, or the first missing one is named
TablesExistOrNamed(f) ==
  /\ result.is_valid => f.missing = {}
  /\ f.missing # {} =>
       ~result.is_valid /\ NamesOneOf(f, {Least(f.missing)}) /\ ListsSchemaTables

\* C9 as stated: a valid result has every extracted table in the schema
\* (case-insensitively); otherwise the result is a rejection whose reason
\* names the first missing table and lists all schema table names.
TablesInSchemaOrNamed == Done => TablesExistOrNamed(Read)

\* the same with the second half kept to the statements the earlier checks let through
TablesExist(f) ==
  /\ result.is_valid => f.missing = {}
  /\ PassesBefore(6, f) /\ f.missing # {} => result = reject(ReasonOf(6, f))

\* C9, amended: a valid result has every extracted table in the schema
\* (case-insensitively); a statement that references a missing table and
\* passes the checks before table existence (empty input, multiple
\* statements, blocked pattern, DDL, role permission) is rejected with a
\* reason that names the first missing table and lists all schema table
\* names, lower-cased.
TablesInSchema == Done => TablesExist(Read)

\* a join with a table the mixed-case schema lacks was rejected for that table
TablesInSchemaWitness ==
  /\ Done /\ schema = BareSchema
  /\ result = reject(MsgTable(<<"g","h","o","s","t">>,
                              << <<"d","e","m","o","_","u","s","e","r","s">>, <<"p","h","a","n","t","o","m">> >>))

\* C10 as stated: a valid result has every extracted column outside the
\* skip-list among the columns of the schema tables the statement
\* references, also when it references no extractable table or its tables
\* have no columns.
ColumnsInTablesAlways == Done /\ result.is_valid => Read.unknown = {}

\* the columns of the statement read as f are known where its tables have
\* columns, and are not looked at where they have none
ColumnsKnown(f) ==
  /\ result.is_valid /\ f.known # {} => f.unknown = {}
  /\ PassesBefore(8, f) /\ f.known = {} => result.is_valid

\* C10, amended: a valid result whose referenced schema tables have at least
\* one column has every extracted column outside the skip-list among the
\* columns of those tables; when the statement references no extractable
\* table or its tables have no columns, the columns are not checked: a
\* statement that passes the earlier checks is then valid.
ColumnsInTables == Done => ColumnsKnown(Read)

\* the statement read as f has a column outside the skip-list and tables with columns
ChecksColumns(f) == f.known # {} /\ f.checked # {}

\* a statement with a column outside the skip-list, on a table with columns, was accepted
ColumnsInTablesWitness == Done /\ result.is_valid /\ ChecksColumns(Read)

(***************************************************************************)
(* The row limit.                                                          *)
(***************************************************************************)
\* the positions of u where LIMIT, as a word, is followed by a number
LimitPositions(u) == {i \in 1..Len(u) : limitAt(u, i)[1] > 0}

\* the numbers that follow LIMIT in the upper-cased text u
LimitsOf(u) == {parseInt(Slice(u, limitAt(u, i)[2], limitAt(u, i)[3])) : i \in LimitPositions(u)}

\* the numbers n of the occurrences of LIMIT n in text
LimitsIn(text) == LimitsOf(toUpperCase(text))

\* validateSQL accepted a statement it classified as op
Accepted(op) == Done /\ result.is_valid /\ result.operation_analysis.operation_type = op

\* C11: in every valid SELECT result sanitized_sql contains no LIMIT n with
\* n above 1000: every numeric LIMIT above the ceiling is clamped to 1000.
LimitClamped == Accepted("SELECT") => \A n \in LimitsIn(result.sanitized_sql) : n <= MAX_LIMIT

\* text without the semicolons and the white space it ends with
withoutTrailer(text) ==
  Slice(text, 1, Greatest({k \in 1..Len(text) : text[k] \notin (WhiteSpace \cup {";"})}) + 1)

\* text with the default limit appended
withDefaultLimit(text) == text \o <<" ","L","I","M","I","T"," ","1","0","0">>

\* C12: for every valid SELECT whose comment-stripped text contains no
\* numeric LIMIT, sanitized_sql is that text with its trailing semicolons and
\* trailing white space removed, followed by " LIMIT 100".
DefaultLimitAppended ==
  Accepted("SELECT") /\ LimitsIn(Cleaned) = {}
    => result.sanitized_sql = withDefaultLimit(withoutTrailer(Cleaned))

\* C13: the row limit is enforced on SELECT only: of an accepted INSERT,
\* UPDATE or DELETE the sanitized statement is the statement without its
\* comments, trimmed, whatever LIMIT it contains.
OnlySelectLimited ==
    Done /\ result.is_valid
         /\ result.operation_analysis.operation_type \in {"INSERT", "UPDATE", "DELETE"}
    => result.sanitized_sql = Cleaned

(***************************************************************************)
(* The risk analysis.                                                      *)
(***************************************************************************)
\* the keyword w stands at position k of u as a word of its own
keywordAt(u, k, w) == MatchAt(u, k, w) /\ WordBoundary(u, k) /\ WordBoundary(u, k + Len(w))

\* reading u from position i on, left to right, the first position where the
\* keyword w stands outside the literals '...' and "...", or 0
RECURSIVE keywordFrom(_, _, _)
keywordFrom(u, w, i) ==
  LET j == Least({k \in i..Len(u) : u[k] \in {"'", "\""} \/ keywordAt(u, k, w)})
  IN IF j = 0 THEN 0
     ELSE IF u[j] \notin {"'", "\""} THEN j
     ELSE IF quoteCloses(u, j) = 0 THEN 0
     ELSE keywordFrom(u, w, quoteCloses(u, j) + 1)

\* the statement text without its comments, in upper case
Statement(text) == toUpperCase(removeComments(text))

\* the statement text has a clause that the keyword w opens (in any letter case)
hasClause(text, w) == keywordFrom(Statement(text), w, 1) > 0

\* analyzeOperation has returned
Analyzed == report # NoReport

\* the analysis a rates the statement: its risk, its rows, and confirmation
Rates(a, risk, rows) ==
  a.risk_level = risk /\ a.estimated_rows = rows /\ a.requires_confirmation

\* the analysis a of the statement must be rated so when the statement is of
\* one of the kinds ops and has the property P
RatedWhen(a, ops, P, risk, rows) == a.operation_type \in ops /\ P => Rates(a, risk, rows)

\* C14: of an UPDATE or DELETE that has no WHERE clause, analyzeOperation
\* (and the analysis in a valid result of validateSQL) gives risk critical,
\* estimated rows all, and requires confirmation.
NoWhereCritical ==
  /\ Analyzed =>
       RatedWhen(report, {"UPDATE", "DELETE"}, ~hasClause(sql, KwWhere), "critical", "all")
  /\ Done /\ result.is_valid =>
       RatedWhen(result.operation_analysis, {"UPDATE", "DELETE"},
                 ~hasClause(sql, KwWhere), "critical", "all")

\* the predicates that match every row, as they are written after WHERE
Tautologies == {<<" ", "1", "=", "1">>, <<" ", "T", "R", "U", "E">>}

\* the predicate that the keyword WHERE at position k of u opens is one of them
tautologyAt(u, k) ==
  \E t \in Tautologies : MatchAt(u, k + 5, t) /\ WordBoundary(u, k + 5 + Len(t))

\* the statement's predicate is WHERE 1=1 or WHERE TRUE (in any letter case)
hasTautology(text) ==
  hasClause(text, KwWhere) /\ tautologyAt(Statement(text), keywordFrom(Statement(text), KwWhere, 1))

\* C15: of an UPDATE or DELETE whose predicate is WHERE 1=1 or WHERE TRUE, in
\* any letter case, analyzeOperation gives risk critical and estimated rows
\* all; of one with a WHERE clause that is neither, risk high and estimated
\* rows multiple.
TautologyCritical ==
  Analyzed =>
    /\ RatedWhen(report, {"UPDATE", "DELETE"}, hasTautology(sql), "critical", "all")
    /\ RatedWhen(report, {"UPDATE", "DELETE"},
                 hasClause(sql, KwWhere) /\ ~hasTautology(sql), "high", "multiple")

\* C16: of an INSERT that takes its rows from a SELECT and has no VALUES
\* clause, analyzeOperation gives risk high, estimated rows multiple, and
\* requires confirmation, whatever the tables and columns are called.
InsertFromSelectHigh ==
  Analyzed =>
    RatedWhen(report, {"INSERT"}, hasClause(sql, KwSelect) /\ ~hasClause(sql, KwValues),
              "high", "multiple")

\* C17: in every analysis analyzeOperation returns, confirmation is required
\* whenever the risk is not safe: the risk is safe exactly when the operation
\* is SELECT, and confirmation is not required exactly when it is SELECT.
ConfirmUnlessSelect ==
  Analyzed =>
    /\ report.risk_level # "safe" => report.requires_confirmation
    /\ report.risk_level = "safe" <=> report.operation_type = "SELECT"
    /\ ~report.requires_confirmation <=> report.operation_type = "SELECT"

ConfirmUnlessSelectWitness ==
  /\ Analyzed
  /\ report.operation_type = "INSERT"
  /\ report.risk_level = "moderate"
  /\ report.requires_confirmation

(***************************************************************************)
(* The classification.                                                     *)
(***************************************************************************)
OperationTypes == {"SELECT", "INSERT", "UPDATE", "DELETE", "DDL", "UNKNOWN"}

\* the leading token of the text c: its longest prefix of word characters
leadingToken(c) == Slice(c, 1, SkipClass(c, WordChars, 1))

\* the leading token of c is one of the keywords
leads(c, keywords) == \E k \in 1..Len(keywords) : leadingToken(c) = keywords[k]

\* somewhere in c one of the DDL keywords is followed by TABLE, INDEX, VIEW or DATABASE
namesObject(c) ==
  \E d \in 1..Len(DDL_KEYWORDS), i \in 1..Len(c) :
    /\ keywordAt(c, i, DDL_KEYWORDS[d])
    /\ SkipClass(c, WhiteSpace, i + Len(DDL_KEYWORDS[d])) > i + Len(DDL_KEYWORDS[d])
    /\ \E o \in 1..Len(DDL_OBJECTS) :
         MatchAt(c, SkipClass(c, WhiteSpace, i + Len(DDL_KEYWORDS[d])), DDL_OBJECTS[o])

\* the rule that makes c a DDL statement applies
ddlRule(c) == leads(c, DDL_KEYWORDS) \/ namesObject(c)

\* one of the rules for the other kinds applies
kindRule(c) == leads(c, <<KwSelect, KwWith, KwInsert, KwUpdate, KwDelete>>)

\* C18: detectOperationType gives DDL precedence over every other kind: text
\* whose leading token is a DDL keyword, or where a DDL keyword is followed by
\* TABLE, INDEX, VIEW or DATABASE anywhere, is DDL even when its leading token
\* is SELECT, WITH, INSERT, UPDATE or DELETE; text that matches none of the
\* rules is UNKNOWN; and every text gets a kind.
DdlFirstElseUnknown ==
  Analyzed =>
    /\ report.operation_type \in OperationTypes
    /\ ddlRule(trim(Statement(sql))) => report.operation_type = "DDL"
    /\ ~ddlRule(trim(Statement(sql))) /\ ~kindRule(trim(Statement(sql)))
         => report.operation_type = "UNKNOWN"

CalledAgain == Done /\ previous # NoResult

SentTo(fn) == request # NoRequest /\ request.to = fn

\* the body's sql is missing, null, or a value that is no string
NoStatement == typeOf(request.body.sql) # "string"

\* C21: when the statement is null, missing or not a string, validateSQL and
\* the validate-query function return the empty-input rejection (not valid,
\* with the empty-query reason) and never raise a fault.
EmptyInputRejected ==
  SentTo("validate-query") /\ NoStatement =>
    /\ result # NoResult => result = reject(MsgEmpty)
    /\ response # NoResponse => response = emptyQueryResponse

\* the body's sql is a statement
HasStatement == typeOf(request.body.sql) = "string"

\* what validateSQL returns for the statement of the request under the
\* request's schema and role
Judged ==
  validateSQL(request.body.sql.string, orElse(request.body.schema, DEFAULT_SCHEMA),
              orElse(request.body.role, "user"), Undefined)

\* C22: execute-query re-validates every query: no database operation is
\* issued for a statement that validateSQL rejects under the request's
\* schema and role.
RevalidatedBeforeExecution ==
  SentTo("execute-query") /\ HasStatement /\ ~Judged.is_valid => issued = <<>>

\* the operations of the Supabase client that write
WriteOps == {"insert", "update", "delete"}

\* the function has issued an operation that writes
Writes == \E i \in 1..Len(issued) : issued[i].op \in WriteOps

\* the function has answered the request
Served == response # NoResponse

\* the request carries confirmed = true
Confirmed == request.body.confirmed = Some(TRUE)

\* the statement of the request is an INSERT, UPDATE or DELETE that comes
\* to the execution: it passes the re-validation, or the re-validation is skipped
WriteToExecute ==
  /\ HasStatement
  /\ detectOperationType(request.body.sql.string) \in {"INSERT", "UPDATE", "DELETE"}
  /\ (isSet(request.body.skip_revalidation) \/ Judged.is_valid)

\* the answer asks for confirmation
AsksConfirmation ==
  /\ "requires_confirmation" \in DOMAIN response.json
  /\ response.json.requires_confirmation

ReturnsRows ==
  /\ SentTo("execute-query") /\ Served
  /\ response.status = 200 /\ response.json.success
  /\ response.json.operation_type = "SELECT"

\* n rows are no more than the statement text allows: DEFAULT_LIMIT without
\* a LIMIT, and with LIMIT k the lesser of k and MAX_LIMIT
WithinLimit(text, n) ==
  IF LimitsIn(text) = {} THEN n <= DEFAULT_LIMIT
  ELSE \E k \in LimitsIn(text) : n <= k /\ n <= MAX_LIMIT

\* C24: the executor runs the sanitized statement: a SELECT without a LIMIT
\* returns at most 100 rows, and a SELECT with LIMIT n returns at most
\* min(n, 1000) rows.
SanitizedExecuted ==
  ReturnsRows => WithinLimit(request.body.sql.string, response.json.row_count)

\* the request is served for the role user
AsUser == orElse(request.body.role, "user") = "user"

\* what the validate-query function's call of validateSQL returns for the
\* statement, the schema and the role of the request: the call with the
\* default allowlist
JudgedWithAllowlist ==
  validateSQL(request.body.sql.string, orElse(request.body.schema, DemoSchema),
              orElse(request.body.role, "user"), Some(DefaultAllowedTables))

\* res rejects the statement for a table outside the allowlist
AccessDenied(res) ==
  /\ ~res.is_valid
  /\ MatchAt(res.reason, 1, <<"A","c","c","e","s","s"," ","d","e","n","i","e","d",":"," ","T","a","b","l","e"," ">>)

\* the function has refused the request: an error answer and no operation
Refused == response.status # 200 /\ issued = <<>>

\* C25: execute-query enforces the same role-based table access as
\* validate-query: for the role user, a statement that validate-query
\* rejects for naming a table outside the user allowlist (by default demo_users
\* and demo_products) is also refused by execute-query when it is called with
\* the role user and without skip_revalidation.
SameTableAccess ==
  /\ SentTo("execute-query") /\ Served
  /\ HasStatement /\ AsUser /\ ~isSet(request.body.skip_revalidation)
  /\ AccessDenied(JudgedWithAllowlist)
  => Refused

(***************************************************************************)
(* The tables and the keywords of an accepted statement.                   *)
(***************************************************************************)
\* the tables of the comma-separated list that starts at position p of s:
\* the identifier at p and, after a comma, the list that follows it
RECURSIVE listedFrom(_, _)
listedFrom(s, p) ==
  LET e == SkipClass(s, WordChars, p)
      c == SkipClass(s, WhiteSpace, e)
  IN IF identAt(s, p) = 0 THEN {}
     ELSE {toLowerCase(Slice(s, p, e))}
          \cup (IF c <= Len(s) /\ s[c] = ","
                THEN listedFrom(s, SkipClass(s, WhiteSpace, c + 1)) ELSE {})

\* the tables named in the FROM clauses of text, in lower case
FromTables(text) ==
  UNION {listedFrom(text, afterWords(toUpperCase(text), k, <<KwFrom>>)) :
           k \in {j \in 1..Len(text) : keywordAt(toUpperCase(text), j, KwFrom)}}

\* the table t is, case-insensitively, a table of the schema sch
InSchema(t, sch) == \E k \in 1..Len(sch) : toLowerCase(sch[k].table_name) = t

\* C26: if validateSQL accepts a statement for the role user with an
\* allowlist, every table named in a FROM clause, the second and later items
\* of a comma-separated FROM list included, belongs to the allowlist and to
\* the schema.
FromListChecked ==
  Done /\ result.is_valid /\ role = "user" /\ allowedTables # Undefined
    => \A t \in FromTables(Cleaned) :
         AmongNames(t, allowedTables[1]) /\ InSchema(t, schema)

\* the keywords of the statements that write
WriteKeywords == {KwInsert, KwUpdate, KwDelete}

\* C27: every statement validateSQL accepts as a SELECT contains no INSERT,
\* UPDATE or DELETE keyword outside string literals, a WITH statement whose
\* body contains a DELETE included.
SelectWritesNothing ==
  Accepted("SELECT") => \A w \in WriteKeywords : ~hasClause(sql, w)

(***************************************************************************)
(* validateSQL and analyzeOperation on rewritten text.                     *)
(***************************************************************************)
\* what validateSQL returns for the sanitized statement of its own result
Revalidated == validateSQL(result.sanitized_sql, schema, role, allowedTables)

\* C28: validateSQL is idempotent on its own output: for an accepted
\* statement, validateSQL of its sanitized_sql is accepted too, with the same
\* sanitized_sql, the same kind and the same risk.
ValidateIdempotent ==
  Done /\ result.is_valid =>
    /\ Revalidated.is_valid
    /\ Revalidated.sanitized_sql = result.sanitized_sql
    /\ Revalidated.operation_analysis.operation_type = result.operation_analysis.operation_type
    /\ Revalidated.operation_analysis.risk_level = result.operation_analysis.risk_level

\* what analyzeOperation returns for the statement without its comments
AnalyzedCleaned == analyzeOperation(Cleaned, schema)

\* the analyses a and b agree on the kind, the risk, the estimated rows and
\* the need of confirmation
SameRating(a, b) ==
  /\ a.operation_type = b.operation_type
  /\ a.risk_level = b.risk_level
  /\ a.estimated_rows = b.estimated_rows
  /\ a.requires_confirmation = b.requires_confirmation

\* C29: analyzeOperation ignores SQL comments: it returns the same kind,
\* risk, estimated rows and requires_confirmation for the raw text as for
\* the text with its comments removed.
CommentsIgnored == Analyzed => SameRating(report, AnalyzedCleaned)

(***************************************************************************)
(* The AI command console.                                                 *)
(***************************************************************************)
\* the ids of the commands in the history
HistoryIds == {ai.commandHistory[k].id : k \in 1..Len(ai.commandHistory)}

\* C30: in every reachable state of the AI command console, when
\* ai.activeCommand is not null, ai.commandHistory contains an entry with the
\* same id, under every interleaving of the awaited steps of handleSubmit
\* with handleCancel, handleExecute and handleClearHistory.
ActiveInHistory == ai.activeCommand # Undefined => ai.activeCommand[1].id \in HistoryIds

====
